---- MODULE Spec2Model ----
(***************************************************************************)
(* A model of the v3 internals of penrose: the Ring collection, the        *)
(* Workspace client list, the Screens <-> Workspaces reconciliation        *)
(* (detect_screens, focus_workspace) and the event loop.                   *)
(*                                                                         *)
(* Each component has its own specification (SpecRing, SpecWorkspace,      *)
(* SpecScreens, SpecLoop, SpecHooks, ...) over its own variables; the       *)
(* variables of the other components stay at their initial value.          *)
(*                                                                         *)
(* Conventions                                                             *)
(*   - Option<T> is a sequence: None is << >>, Some(x) is <<x>>.           *)
(*   - Indices are 0-based as in the source; position i of a VecDeque      *)
(*     or Vec is element i + 1 of the TLA+ sequence.                       *)
(*   - usize arithmetic keeps a width: with overflow checks (a debug       *)
(*     build) an overflowing operation panics, without them (a release     *)
(*     build) it wraps modulo 2^USIZE_BITS.  The build is chosen once, in  *)
(*     Init, and recorded in overflow_checks.                              *)
(*   - A panic ends the program: panicked becomes TRUE and no further      *)
(*     action is enabled.                                                  *)
(***************************************************************************)
EXTENDS Integers, Sequences, FiniteSets, TLC

VARIABLES
    overflow_checks,   \* TRUE: arithmetic overflow panics; FALSE: it wraps
    panicked,          \* the program has panicked
    \* ---- Ring harness (src/v3/ring.rs)
    ring,              \* [inner: Seq(Elems), focused: usize]
    rlast,             \* the last Ring operation: its name, arguments, the ring before it, its return value
    \* ---- Workspace harness (src/v3/workspace/mod.rs)
    ws,                \* [clients: Ring<Xid>, layouts: Ring<Layout>]
    wlast,             \* the last Workspace operation
    \* ---- Screens / Workspaces (src/v3/state.rs, src/v3/actions)
    screens,           \* [focused: usize, workspaces: Seq(usize), inner: Seq(Region)]
    workspaces,        \* [inner: Seq(Workspace), focused: usize, prev: usize]
    slast,             \* the last action call: arguments, state before, result, commands issued
    \* ---- event loop (src/v3/event/mod.rs)
    chan,              \* the inbound channel: requests sent and not yet received
    running,           \* s.running
    loop_pc,           \* where the loop thread is: "while", "recv", "handle" or "done"
    cur,               \* the request being handled, as an Option
    arrived,           \* every request ever sent, in order of arrival (history)
    handled,           \* every request whose handling completed, in order (history)
    nerrors,           \* number of calls of error_handler (history)
    x_pc,              \* the x thread spawned by event_loop: "wait" (in its loop), "stopped" or "panicked"
    lp_joined,         \* the threads event_loop has joined
    \* ---- hook runner (src/v3/hook.rs) and the handle given to hooks (src/v3/handle.rs)
    hk_stored,         \* HookRunner.inner: the hooks in the Cell
    hk_hooks,          \* the local `hooks` of run_hooks!, while a dispatch is under way
    hk_pc,             \* where the loop thread is: "idle", "iter", "await_reply", "restore" or "returned"
    hk_i,              \* index of the hook try_for_each calls next
    hk_res,            \* result of try_for_each so far: "Ok" or "Err"
    hk_last,           \* the dispatch under way or just over: the list before it, the hooks invoked, the hooks that failed, the hook whose error is returned, the calls of run made from a hook and the hooks those calls invoked (history)
    hk_chan,           \* the inbound channel of the loop: requests sent through a WmHandle and not yet received
    hk_waiting,        \* the threads blocked in rpc_call!, waiting for a reply
    \* ---- worker pool (src/v3/worker.rs)
    pl_chan,           \* the pool's channel: Message::Job / Message::ShutDown sent and not yet received
    pl_workers,        \* per worker: [pc, job, shut]: "recv", "run" (job), "exited" or "dead"; ShutDown messages consumed
    pl_owner,          \* the thread that owns the Pool: "live", "drop_send", "drop_join", "dropped", "exec_panicked" or "drop_panicked"
    pl_sent,           \* ShutDown messages sent by drop so far
    pl_joined,         \* workers joined by drop so far
    pl_njobs,          \* jobs accepted by Pool::exec so far
    pl_log,            \* every start of a job: [job, worker] (history)
    \* ---- WindowManager::run (src/v3/manager.rs)
    mg_running,        \* self.running
    mg_pc,             \* where run is: "while", "wait", "actions", "tail" or "done"
    mg_actions,        \* the actions of the current event not handled yet
    mg_todo,           \* the calls that end the current iteration, not made yet
    mg_iter,           \* the current or last iteration: what wait_for_event returned, the calls made since (history)
    mg_lost,           \* wait_for_event has returned Err: the connection to the server is lost
    mg_nevents,        \* events returned by wait_for_event so far
    \* ---- rpc_call! (src/v3/handle.rs): a request and its reply channel
    rc_inbox,          \* the inbound channel: requests, each carrying the Sender of its reply channel
    rc_cur,            \* Option: the request the loop has received and not disposed of yet
    rc_tx,             \* per caller, where the Sender of its reply channel is: "none", "queued", "held", "dropped"
    rc_buf,            \* per caller, the values in its reply channel (bounded(1))
    rc_pc,             \* per caller: "idle", "recv" (blocked in rx.recv()), "returned", "panicked"
    rc_got,            \* per caller, Option: the value its call returned
    rc_sent,           \* per caller, the values sent on the reply channel of its current call (history)
    rc_ncalls,         \* per caller, the calls it has made
    \* ---- ArrangeActions::new (src/v3/workspace/arrange_actions.rs)
    ar_ws,             \* the Workspace passed as ws
    ar_clients,        \* the Clients table passed as cs: per Xid, Some(client record) or None
    ar_out             \* Option: the ArrangeActions the last call returned, [actions, floating]

commonVars == <<overflow_checks, panicked>>
ringVars   == <<ring, rlast>>
wsVars     == <<ws, wlast>>
scrVars    == <<screens, workspaces, slast>>
loopVars   == <<chan, running, loop_pc, cur, arrived, handled, nerrors>>
readerVars == <<x_pc, lp_joined>>
hookVars   == <<hk_stored, hk_hooks, hk_pc, hk_i, hk_res, hk_last, hk_chan, hk_waiting>>
\* The components added after the first four
poolVars   == <<pl_chan, pl_workers, pl_owner, pl_sent, pl_joined, pl_njobs, pl_log>>
mgrVars    == <<mg_running, mg_pc, mg_actions, mg_todo, mg_iter, mg_lost, mg_nevents>>
rpcVars    == <<rc_inbox, rc_cur, rc_tx, rc_buf, rc_pc, rc_got, rc_sent, rc_ncalls>>
arrVars    == <<ar_ws, ar_clients, ar_out>>
extVars    == <<readerVars, hookVars, poolVars, mgrVars, rpcVars, arrVars>>
vars       == <<commonVars, ringVars, wsVars, scrVars, loopVars, extVars>>

-----------------------------------------------------------------------------
(* Bounds of the model *)

\* Width of usize in the model (the real width does not fit TLC's integers)
USIZE_BITS == 4
\* Longest Ring the harness builds
MaxRingLen == 3
\* Number of workspaces of the configuration (c.workspaces.len())
NWorkspaces == 3
\* Largest number of screens the display server reports
MaxScreens == 2

UsizeMod == 2 ^ USIZE_BITS
UsizeMax == UsizeMod - 1

\* The values of T in the Ring<T> of the harness
Elems == {1, 2, 3}

BoundedSeq(S, n) == UNION {[1..k -> S] : k \in 0..n}

Max(a, b) == IF a >= b THEN a ELSE b
Min(a, b) == IF a <= b THEN a ELSE b

None == << >>
Some(x) == <<x>>

-----------------------------------------------------------------------------
(* usize arithmetic *)

\* a - b overflows
SubOverflows(a, b) == a < b
\* a - b in a build without overflow checks
WrapSub(a, b) == (a - b + UsizeMod) % UsizeMod
\* a + b overflows
AddOverflows(a, b) == a + b > UsizeMax
\* a + b in a build without overflow checks
WrapAdd(a, b) == (a + b) % UsizeMod

-----------------------------------------------------------------------------
(* std::collections::VecDeque, as far as Ring uses it *)

\* VecDeque::get(i)
DequeGet(q, i) == IF i < Len(q) THEN Some(q[i + 1]) ELSE None
\* VecDeque::insert(i, t), defined for i <= len (it panics otherwise)
DequeInsert(q, i, t) == SubSeq(q, 1, i) \o <<t>> \o SubSeq(q, i + 1, Len(q))
\* VecDeque::remove(i), defined for i < len (it returns None otherwise)
DequeRemove(q, i) == SubSeq(q, 1, i) \o SubSeq(q, i + 2, Len(q))
\* VecDeque::swap(i, j), defined for i, j < len (it panics otherwise)
DequeSwap(q, i, j) ==
    [k \in 1..Len(q) |-> IF k = i + 1 THEN q[j + 1] ELSE IF k = j + 1 THEN q[i + 1] ELSE q[k]]
\* VecDeque::rotate_right(1) on a non-empty deque
DequeRotateRight(q) == <<q[Len(q)]>> \o SubSeq(q, 1, Len(q) - 1)
\* VecDeque::rotate_left(1) on a non-empty deque
DequeRotateLeft(q) == SubSeq(q, 2, Len(q)) \o <<q[1]>>
\* Iterator::position for the predicate "equal to t", as an Option
RECURSIVE PositionFrom(_, _, _)
PositionFrom(q, t, i) ==
    IF i >= Len(q) THEN None
    ELSE IF q[i + 1] = t THEN Some(i)
    ELSE PositionFrom(q, t, i + 1)
\* A position that finds the last element equal to t
DequePositionLast(q, t) ==
    IF \E k \in 1..Len(q) : q[k] = t
    THEN Some((CHOOSE k \in 1..Len(q) : q[k] = t /\ \A j \in (k + 1)..Len(q) : q[j] # t) - 1)
    ELSE None

DequePosition(q, t) == PositionFrom(q, t, 0)
DequeContains(q, t) == \E k \in 1..Len(q) : q[k] = t

-----------------------------------------------------------------------------
(* Ring (src/v3/ring.rs).  Every operation is an operator from the ring     *)
(* (and the arguments) to an outcome [ring, ret, panic]: the ring after     *)
(* the call, the value returned, and whether the call panicked.             *)

Forward == "Forward"
Backward == "Backward"
Direction == {Forward, Backward}

\* InsertPoint
IpIndex(i) == [kind |-> "Index", i |-> i]
IpFocused == [kind |-> "Focused", i |-> 0]
IpAfterFocused == [kind |-> "AfterFocused", i |-> 0]
IpFirst == [kind |-> "First", i |-> 0]
IpLast == [kind |-> "Last", i |-> 0]

\* Ring::new / Ring::from
RingFrom(v) == [inner |-> v, focused |-> 0]
RingNew == RingFrom(<< >>)

Returns(r, ret) == [ring |-> r, ret |-> ret, panic |-> FALSE]
Panics(r) == [ring |-> r, ret |-> None, panic |-> TRUE]

RingLen(r) == Len(r.inner)
focused_index(r) == IF r.inner = << >> THEN None ELSE Some(r.focused)
focused_element(r) == DequeGet(r.inner, r.focused)

\* Ring::insert
RingInsert(r, t, ip) ==
    CASE ip.kind = "First" -> Returns([r EXCEPT !.inner = <<t>> \o r.inner], None)
      [] ip.kind = "Last" -> Returns([r EXCEPT !.inner = Append(r.inner, t)], None)
      [] ip.kind = "Index" ->
            IF ip.i > RingLen(r) THEN Panics(r)
            ELSE Returns([r EXCEPT !.inner = DequeInsert(r.inner, ip.i, t)], None)
      [] ip.kind = "Focused" ->
            IF r.focused > RingLen(r) THEN Panics(r)
            ELSE Returns([r EXCEPT !.inner = DequeInsert(r.inner, r.focused, t)], None)
      [] ip.kind = "AfterFocused" ->
            IF AddOverflows(r.focused, 1) /\ overflow_checks THEN Panics(r)
            ELSE LET ix == WrapAdd(r.focused, 1) IN
                 IF ix > RingLen(r)
                 THEN Returns([r EXCEPT !.inner = Append(r.inner, t)], None)
                 ELSE Returns([r EXCEPT !.inner = DequeInsert(r.inner, ix, t)], None)

\* A rotate that keeps the focus on the element that had it
RingRotateFollowFocus(r, direction) ==
    IF r.inner = << >> THEN Returns(r, None)
    ELSE IF direction = Forward
         THEN Returns([r EXCEPT !.inner = DequeRotateRight(r.inner),
                                !.focused = (r.focused + 1) % Len(r.inner)], None)
         ELSE Returns([r EXCEPT !.inner = DequeRotateLeft(r.inner),
                                !.focused = (r.focused + Len(r.inner) - 1) % Len(r.inner)], None)

\* Ring::rotate
RingRotate(r, direction) ==
    IF r.inner = << >> THEN Returns(r, None)
    ELSE IF direction = Forward
         THEN Returns([r EXCEPT !.inner = DequeRotateRight(r.inner)], None)
         ELSE Returns([r EXCEPT !.inner = DequeRotateLeft(r.inner)], None)

\* A would_wrap that only sees the wrap at the front
RingWouldWrapBackOnly(r, dir) ==
    Returns(r, <<r.focused = 0 /\ dir = Backward>>)

\* Ring::would_wrap; ret is <<bool>>
RingWouldWrap(r, dir) ==
    IF SubOverflows(RingLen(r), 1) /\ overflow_checks THEN Panics(r)
    ELSE LET wrap_back == r.focused = 0 /\ dir = Backward
             wrap_forward == r.focused = WrapSub(RingLen(r), 1) /\ dir = Forward
         IN Returns(r, <<wrap_back \/ wrap_forward>>)

\* A next_index that stops at the ends instead of wrapping
RingNextIndexNoWrap(r, direction) ==
    IF SubOverflows(RingLen(r), 1) /\ overflow_checks THEN Panics(r)
    ELSE LET max == WrapSub(RingLen(r), 1) IN
         IF direction = Forward
         THEN IF r.focused = max THEN Returns(r, <<max>>)
              ELSE Returns(r, <<WrapAdd(r.focused, 1)>>)
         ELSE IF r.focused = 0 THEN Returns(r, <<0>>)
              ELSE Returns(r, <<r.focused - 1>>)

\* Ring::next_index; ret is <<usize>>
RingNextIndex(r, direction) ==
    IF SubOverflows(RingLen(r), 1) /\ overflow_checks THEN Panics(r)
    ELSE LET max == WrapSub(RingLen(r), 1) IN
         IF direction = Forward
         THEN IF r.focused = max THEN Returns(r, <<0>>)
              ELSE IF AddOverflows(r.focused, 1) /\ overflow_checks THEN Panics(r)
              ELSE Returns(r, <<WrapAdd(r.focused, 1)>>)
         ELSE IF r.focused = 0 THEN Returns(r, <<max>>)
              ELSE Returns(r, <<r.focused - 1>>)

\* Ring::focus, given p = self.position(predicate); ret is <<changed, index>> for Ok,
\* << >> for Err(NoMatchingElement)
RingFocusAt(r, p) ==
    IF p = None THEN Returns(r, None)
    ELSE IF p[1] = r.focused THEN Returns(r, <<FALSE, p[1]>>)
    ELSE Returns([r EXCEPT !.focused = p[1]], <<TRUE, p[1]>>)

\* Ring::focus for the predicate "equal to t"
RingFocus(r, t) == RingFocusAt(r, DequePosition(r.inner, t))

\* Ring::cycle_focus; ret is the newly focused element as an Option
RingCycleFocus(r, direction) ==
    LET n == RingNextIndex(r, direction) IN
    IF n.panic THEN Panics(r)
    ELSE LET r2 == [r EXCEPT !.focused = n.ret[1]] IN Returns(r2, focused_element(r2))

\* Ring::drag_focused
RingDragFocused(r, direction) ==
    IF r.inner = << >> THEN Returns(r, None)
    ELSE LET n == RingNextIndex(r, direction) IN
         IF n.panic THEN Panics(r)
         ELSE LET other == n.ret[1] IN
              IF (r.focused = 0 /\ direction = Backward) \/ (other = 0 /\ direction = Forward)
              THEN RingCycleFocus(RingRotate(r, direction).ring, direction)
              ELSE IF r.focused >= RingLen(r) \/ other >= RingLen(r) THEN Panics(r)
              ELSE RingCycleFocus([r EXCEPT !.inner = DequeSwap(r.inner, r.focused, other)], direction)

\* Ring::clamp_focus
RingClampFocus(r) ==
    IF r.focused > 0
    THEN IF SubOverflows(RingLen(r), 1) /\ overflow_checks THEN Panics(r)
         ELSE IF r.focused >= WrapSub(RingLen(r), 1)
              THEN Returns([r EXCEPT !.focused = r.focused - 1], None)
              ELSE Returns(r, None)
    ELSE Returns(r, None)

\* Ring::remove; ret is the removed element as an Option
RingRemove(r, index) ==
    LET t == DequeGet(r.inner, index)
        r2 == IF t = None THEN r ELSE [r EXCEPT !.inner = DequeRemove(r.inner, index)]
        c == RingClampFocus(r2)
    IN IF c.panic THEN Panics(r2) ELSE Returns(c.ring, t)

\* Ring::remove_focused
RingRemoveFocused(r) == RingRemove(r, r.focused)

\* Ring::swap
RingSwap(r, i, j) ==
    IF i >= RingLen(r) \/ j >= RingLen(r) THEN Panics(r)
    ELSE Returns([r EXCEPT !.inner = DequeSwap(r.inner, i, j)], None)

\* Ring::swap_focused_with_front
RingSwapFocusedWithFront(r) ==
    IF r.inner # << >>
    THEN IF r.focused >= RingLen(r) THEN Panics(r)
         ELSE Returns([inner |-> DequeSwap(r.inner, 0, r.focused), focused |-> 0], None)
    ELSE Returns(r, None)

\* Ring::contains
RingContains(r, t) == DequeContains(r.inner, t)


-----------------------------------------------------------------------------
(* Workspace (src/v3/workspace/mod.rs).  A workspace is [clients, layouts]; *)
(* a Layout is [symbol, allow_wrapping] (conf.allow_wrapping is the only    *)
(* part of LayoutConf the client operations read).  Every operation is an   *)
(* operator to an outcome [ws, ret, panic].                                 *)

WsReturns(w, ret) == [ws |-> w, ret |-> ret, panic |-> FALSE]
WsPanics(w) == [ws |-> w, ret |-> None, panic |-> TRUE]

ResOk == <<"Ok">>
ResErr == <<"Err">>

\* Workspace::new, for a non-empty list of layouts
WorkspaceNew(layouts) == [clients |-> RingNew, layouts |-> RingFrom(layouts)]

client_ids(w) == w.clients.inner
focused_client(w) == focused_element(w.clients)
\* Workspace::current_layout_config().allow_wrapping (focused_element_unchecked: the layouts ring is never empty)
allow_wrapping(w) == w.layouts.inner[w.layouts.focused + 1].allow_wrapping
\* Workspace::layout_symbol
layout_symbol(w) == w.layouts.inner[w.layouts.focused + 1].symbol

\* Workspace::add_client; ret is Ok or Err
WsAddClient(w, id, ip) ==
    IF RingContains(w.clients, id) THEN WsReturns(w, ResErr)
    ELSE LET o == RingInsert(w.clients, id, ip) IN
         IF o.panic THEN WsPanics(w)
         ELSE WsReturns([w EXCEPT !.clients = o.ring], ResOk)

\* Workspace::remove_client; ret is the removed id as an Option
WsRemoveClient(w, id) ==
    LET p == DequePosition(w.clients.inner, id) IN
    IF p = None THEN WsReturns(w, None)
    ELSE LET o == RingRemove(w.clients, p[1]) IN
         IF o.panic THEN WsPanics(w)
         ELSE WsReturns([w EXCEPT !.clients = o.ring], o.ret)

\* position of the first layout with the given symbol
RECURSIVE SymbolPositionFrom(_, _, _)
SymbolPositionFrom(q, symbol, i) ==
    IF i >= Len(q) THEN None
    ELSE IF q[i + 1].symbol = symbol THEN Some(i)
    ELSE SymbolPositionFrom(q, symbol, i + 1)

\* Workspace::try_set_layout; ret is <<symbol of the layout>> for Ok, << >> for Err
WsTrySetLayout(w, symbol) ==
    LET o == RingFocusAt(w.layouts, SymbolPositionFrom(w.layouts.inner, symbol, 0)) IN
    IF o.ret = None THEN WsReturns(w, None)
    ELSE WsReturns([w EXCEPT !.layouts = o.ring], <<o.ring.inner[o.ret[2] + 1].symbol>>)

\* A cycle_layout that rotates the clients along with the layouts
WsCycleLayoutWithClients(w, direction) ==
    LET w2 == [w EXCEPT !.layouts = RingRotate(w.layouts, direction).ring,
                        !.clients = RingRotate(w.clients, direction).ring] IN
    WsReturns(w2, <<layout_symbol(w2)>>)

\* Workspace::cycle_layout; ret is <<symbol>>
WsCycleLayout(w, direction) ==
    LET w2 == [w EXCEPT !.layouts = RingRotate(w.layouts, direction).ring] IN
    WsReturns(w2, <<layout_symbol(w2)>>)

\* Workspace::cycle_client; ret is <<prev, new>> or None
WsCycleClient(w, direction) ==
    IF RingLen(w.clients) < 2 THEN WsReturns(w, None)
    ELSE LET ww == IF allow_wrapping(w) THEN Returns(w.clients, <<FALSE>>)
                   ELSE RingWouldWrap(w.clients, direction) IN
         IF ww.panic THEN WsPanics(w)
         ELSE IF ww.ret[1] THEN WsReturns(w, None)
         ELSE LET prev == focused_client(w) IN
              IF prev = None THEN WsReturns(w, None)
              ELSE LET o == RingCycleFocus(w.clients, direction) IN
                   IF o.panic THEN WsPanics(w)
                   ELSE IF o.ret = None THEN WsReturns([w EXCEPT !.clients = o.ring], None)
                   ELSE WsReturns([w EXCEPT !.clients = o.ring], <<prev[1], o.ret[1]>>)

\* Workspace::drag_client
WsDragClient(w, direction) ==
    LET ww == IF allow_wrapping(w) THEN Returns(w.clients, <<FALSE>>)
              ELSE RingWouldWrap(w.clients, direction) IN
    IF ww.panic THEN WsPanics(w)
    ELSE IF ww.ret[1] THEN WsReturns(w, None)
    ELSE LET o == RingDragFocused(w.clients, direction) IN
         IF o.panic THEN WsPanics(w)
         ELSE WsReturns([w EXCEPT !.clients = o.ring], None)

\* Workspace::rotate_clients
WsRotateClients(w, direction) ==
    WsReturns([w EXCEPT !.clients = RingRotate(w.clients, direction).ring], None)

-----------------------------------------------------------------------------
(* Screens and Workspaces (src/v3/state.rs) and the actions on them         *)
(* (src/v3/actions/screen.rs, src/v3/actions/workspace.rs).                 *)
(*                                                                          *)
(* screens    = [focused, workspaces, inner]   (struct Screens)             *)
(* workspaces = [inner, focused, prev]         (struct Workspaces)          *)
(*                                                                          *)
(* A call to the display server (or to one of the helpers of                *)
(* actions/workspace.rs that wrap one) either succeeds, and is then         *)
(* appended to the log of the action, or fails, and its error is            *)
(* propagated by `?`.  The caller of the action chooses which call fails:   *)
(* fail = k makes the k-th call fail, fail = 0 none.                        *)

\* Screens::default()
ScreensDefault == [focused |-> 0, workspaces |-> << >>, inner |-> << >>]

\* Vec::contains
VecContains(v, x) == \E k \in 1..Len(v) : v[k] = x
\* Iterator::take(n) on a sequence
Take(q, n) == SubSeq(q, 1, Min(n, Len(q)))

\* Requests returned by detect_screens
RpcApplyLayoutAll == [rpc |-> "ApplyLayout", h |-> "", rs |-> << >>]
RpcScreenUpdated(rs) == [rpc |-> "RunHook", h |-> "ScreenUpdated", rs |-> rs]

\* (0..n_ws).filter(|w| !screens.workspaces.contains(w)), in order
NotDisplayed(s, n_ws) ==
    SelectSeq([k \in 1..n_ws |-> k - 1], LAMBDA w : ~VecContains(s.workspaces, w))

\* detect_screens, given det = s.current_screens(): [ok |-> FALSE] for an Err,
\* [ok |-> TRUE, rs |-> regions] for Ok(regions).  The outcome is
\* [s, res, rpcs]: Screens after the call, "Ok" / "Err" / "Panic", and the
\* requests returned.
DetectScreens(s, det, n_ws) ==
    IF ~det.ok THEN [s |-> s, res |-> "Err", rpcs |-> << >>]
    ELSE IF s.inner # det.rs
    THEN LET s1 == [s EXCEPT !.inner = det.rs]
             n == Len(det.rs)
             m == Len(s.workspaces)
             rpcs == <<RpcApplyLayoutAll, RpcScreenUpdated(det.rs)>>
         IN IF n < m
            THEN [s |-> [s1 EXCEPT !.workspaces = SubSeq(s.workspaces, 1, n)], res |-> "Ok", rpcs |-> rpcs]
            ELSE IF n > m
            THEN IF SubOverflows(m, n) /\ overflow_checks
                 THEN [s |-> s1, res |-> "Panic", rpcs |-> << >>]
                 ELSE [s |-> [s1 EXCEPT !.workspaces = s.workspaces \o Take(NotDisplayed(s, n_ws), WrapSub(m, n))],
                       res |-> "Ok", rpcs |-> rpcs]
            ELSE [s |-> s1, res |-> "Ok", rpcs |-> rpcs]
    ELSE [s |-> s, res |-> "Ok", rpcs |-> << >>]

\* Events returned by focus_screen
RpcSetActiveWorkspace(wix) == [rpc |-> "SetActiveWorkspace", h |-> "", rs |-> <<wix>>]
RpcScreenChange == [rpc |-> "RunHook", h |-> "ScreenChange", rs |-> << >>]

\* focus_screen for the selector "the screen at index i": focused changes
\* when i is another screen, and the workspace of that screen becomes the
\* active one; otherwise nothing happens and nothing is returned
FocusScreen(s, i) ==
    IF i < Len(s.inner) /\ i # s.focused
    THEN IF i >= Len(s.workspaces) THEN [s |-> s, res |-> "Panic", rpcs |-> << >>]
         ELSE [s |-> [s EXCEPT !.focused = i], res |-> "Ok",
               rpcs |-> <<RpcSetActiveWorkspace(s.workspaces[i + 1]), RpcScreenChange>>]
    ELSE [s |-> s, res |-> "Ok", rpcs |-> << >>]

\* The steps of focus_workspace: assignments to the state, fallible calls,
\* the hook and panics, as records [k, a, b].
StSetPrev(v) == [k |-> "set_prev", a |-> v, b |-> 0]
StSetScreen(i, v) == [k |-> "set_screen", a |-> i, b |-> v]
StSetFocused(v) == [k |-> "set_focused", a |-> v, b |-> 0]
StPanic == [k |-> "panic", a |-> 0, b |-> 0]
\* apply_layout(ix)?
StApplyLayout(ix) == [k |-> "apply_layout", a |-> ix, b |-> 0]
\* x.set_current_workspace(ix)?
StSetCurrentWorkspace(ix) == [k |-> "set_current_workspace", a |-> ix, b |-> 0]
\* update_focus(id)?
StUpdateFocus(id) == [k |-> "update_focus", a |-> id, b |-> 0]
\* unmap_if_needed(id, x)?
StUnmap(id) == [k |-> "unmap_if_needed", a |-> id, b |-> 0]
\* map_if_needed(id, x)?
StMap(id) == [k |-> "map_if_needed", a |-> id, b |-> 0]
\* run_hook(HookTrigger::WorkspaceChange { prev, new })
StHook(prev, new) == [k |-> "run_hook", a |-> prev, b |-> new]

\* The steps that are calls returning a Result
FallibleCalls == {"apply_layout", "set_current_workspace", "update_focus", "unmap_if_needed", "map_if_needed"}

\* if let Some(id) = w[index].focused_client() { update_focus(id)?; }
FocusClientSteps(w, index) ==
    IF index >= Len(w.inner) THEN <<StPanic>>
    ELSE LET c == focused_client(w.inner[index + 1]) IN
         IF c = None THEN << >> ELSE <<StUpdateFocus(c[1])>>

\* for i in 0..s.len() { if s.workspaces[i] == index { .. } }: the first i that
\* matches, as [kind |-> "found", i], or "none", or "panic" when
\* s.workspaces[i] is out of bounds before a match
RECURSIVE ScanScreens(_, _, _)
ScanScreens(s, index, i) ==
    IF i >= Len(s.inner) THEN [kind |-> "none", i |-> 0]
    ELSE IF i >= Len(s.workspaces) THEN [kind |-> "panic", i |-> i]
    ELSE IF s.workspaces[i + 1] = index THEN [kind |-> "found", i |-> i]
    ELSE ScanScreens(s, index, i + 1)

\* SwapSteps without `s.workspaces[i] = active`: the target's former screen
\* keeps showing the target
SwapStepsNoSwapBack(s, w, index, active, i) ==
    <<StSetScreen(s.focused, index),
      StApplyLayout(active), StApplyLayout(index), StSetCurrentWorkspace(index)>>
    \o FocusClientSteps(w, index)
    \o <<StSetFocused(index), StHook(active, index)>>

\* The target is displayed on screen i: swap the two screens' workspaces
SwapSteps(s, w, index, active, i) ==
    <<StSetScreen(i, active), StSetScreen(s.focused, index),
      StApplyLayout(active), StApplyLayout(index), StSetCurrentWorkspace(index)>>
    \o FocusClientSteps(w, index)
    \o <<StSetFocused(index), StHook(active, index)>>

\* ReplaceSteps with `s.workspaces[s.focused] = index` moved in front of the
\* unmap and map loops
ReplaceStepsEarlyAssign(s, w, index, active) ==
    <<StSetScreen(s.focused, index)>>
    \o (IF active >= Len(w.inner) THEN <<StPanic>>
        ELSE [k \in 1..Len(client_ids(w.inner[active + 1])) |-> StUnmap(client_ids(w.inner[active + 1])[k])])
    \o (IF index >= Len(w.inner) THEN <<StPanic>>
        ELSE [k \in 1..Len(client_ids(w.inner[index + 1])) |-> StMap(client_ids(w.inner[index + 1])[k])])
    \o <<StApplyLayout(index), StSetCurrentWorkspace(index)>>
    \o FocusClientSteps(w, index)
    \o <<StSetFocused(index), StHook(active, index)>>

\* The target is not displayed: unmap the active workspace, map the target
ReplaceSteps(s, w, index, active) ==
    (IF active >= Len(w.inner) THEN <<StPanic>>
     ELSE [k \in 1..Len(client_ids(w.inner[active + 1])) |-> StUnmap(client_ids(w.inner[active + 1])[k])])
    \o (IF index >= Len(w.inner) THEN <<StPanic>>
        ELSE [k \in 1..Len(client_ids(w.inner[index + 1])) |-> StMap(client_ids(w.inner[index + 1])[k])])
    \o <<StSetScreen(s.focused, index), StApplyLayout(index), StSetCurrentWorkspace(index)>>
    \o FocusClientSteps(w, index)
    \o <<StSetFocused(index), StHook(active, index)>>

\* FocusWorkspaceSteps taking w.focused, not the focused screen's workspace,
\* for the active workspace
FocusWorkspaceStepsActiveFromFocused(index, s, w) ==
    IF w.focused = index THEN << >>
    ELSE IF s.focused >= Len(s.workspaces) THEN <<StPanic>>
    ELSE LET active == w.focused
             scan == ScanScreens(s, index, 0)
         IN <<StSetPrev(active)>> \o
            (CASE scan.kind = "panic" -> <<StPanic>>
               [] scan.kind = "found" -> SwapSteps(s, w, index, active, scan.i)
               [] scan.kind = "none" -> ReplaceSteps(s, w, index, active))

\* FocusWorkspaceSteps without the early return for the focused workspace
FocusWorkspaceStepsNoEarlyReturn(index, s, w) ==
    IF s.focused >= Len(s.workspaces) THEN <<StPanic>>
    ELSE LET active == s.workspaces[s.focused + 1]
             scan == ScanScreens(s, index, 0)
         IN <<StSetPrev(active)>> \o
            (CASE scan.kind = "panic" -> <<StPanic>>
               [] scan.kind = "found" -> SwapSteps(s, w, index, active, scan.i)
               [] scan.kind = "none" -> ReplaceSteps(s, w, index, active))

\* focus_workspace as the sequence of steps it takes from (s, w), when no
\* call fails and nothing panics
FocusWorkspaceSteps(index, s, w) ==
    IF w.focused = index THEN << >>
    ELSE IF s.focused >= Len(s.workspaces) THEN <<StPanic>>
    ELSE LET active == s.workspaces[s.focused + 1]
             scan == ScanScreens(s, index, 0)
         IN <<StSetPrev(active)>> \o
            (CASE scan.kind = "panic" -> <<StPanic>>
               [] scan.kind = "found" -> SwapSteps(s, w, index, active, scan.i)
               [] scan.kind = "none" -> ReplaceSteps(s, w, index, active))

\* Number of fallible calls among the steps before the first panic
RECURSIVE NCalls(_, _)
NCalls(steps, k) ==
    IF k > Len(steps) \/ steps[k].k = "panic" THEN 0
    ELSE (IF steps[k].k \in FallibleCalls THEN 1 ELSE 0) + NCalls(steps, k + 1)

\* Run the steps from k on st = [s, w, log, ncalls, res]; the fail-th call returns Err
RECURSIVE Exec(_, _, _, _)
Exec(steps, k, st, fail) ==
    IF k > Len(steps) THEN [st EXCEPT !.res = "Ok"]
    ELSE LET step == steps[k] IN
         CASE step.k = "panic" -> [st EXCEPT !.res = "Panic"]
           [] step.k \in FallibleCalls ->
                IF st.ncalls + 1 = fail
                THEN [st EXCEPT !.res = "Err", !.ncalls = @ + 1]
                ELSE Exec(steps, k + 1, [st EXCEPT !.log = Append(@, step), !.ncalls = @ + 1], fail)
           [] step.k = "run_hook" ->
                Exec(steps, k + 1, [st EXCEPT !.log = Append(@, step)], fail)
           [] step.k = "set_prev" ->
                Exec(steps, k + 1, [st EXCEPT !.w.prev = step.a], fail)
           [] step.k = "set_focused" ->
                Exec(steps, k + 1, [st EXCEPT !.w.focused = step.a], fail)
           [] step.k = "set_screen" ->
                Exec(steps, k + 1, [st EXCEPT !.s.workspaces[step.a + 1] = step.b], fail)

\* Number of fallible calls focus_workspace(index, s, w, x) makes when none fails
FocusWorkspaceCalls(index, s, w) == NCalls(FocusWorkspaceSteps(index, s, w), 1)

\* focus_workspace(index, s, w, x); the outcome is [s, w, log, ncalls, res]
FocusWorkspace(index, s, w, fail) ==
    Exec(FocusWorkspaceSteps(index, s, w), 1,
         [s |-> s, w |-> w, log |-> << >>, ncalls |-> 0, res |-> "Running"], fail)

-----------------------------------------------------------------------------
(* Idle values of the components a specification does not exercise *)

RLastInit == [op |-> "init", dir |-> Forward, ip |-> IpFirst, t |-> 0, i |-> 0, j |-> 0,
              pre |-> RingNew, ret |-> None]

WLastInit == [op |-> "init", dir |-> Forward, ip |-> IpFirst, id |-> 0, symbol |-> "",
              pre |-> [clients |-> RingNew, layouts |-> RingNew], ret |-> None]

RingIdle == ring = RingNew /\ rlast = RLastInit
WsIdle == ws = [clients |-> RingNew, layouts |-> RingNew] /\ wlast = WLastInit
WorkspacesEmpty == [inner |-> << >>, focused |-> 0, prev |-> 0]
SLastInit == [op |-> "init", index |-> 0, fail |-> 0, det |-> [ok |-> FALSE, rs |-> << >>],
              pre_s |-> ScreensDefault, pre_w |-> WorkspacesEmpty,
              res |-> "Ok", log |-> << >>, rpcs |-> << >>]

ScrIdle ==
    /\ screens = ScreensDefault
    /\ workspaces = WorkspacesEmpty
    /\ slast = SLastInit
LoopIdle ==
    /\ chan = << >>
    /\ running = FALSE
    /\ loop_pc = "done"
    /\ cur = None
    /\ arrived = << >>
    /\ handled = << >>
    /\ nerrors = 0

\* No thread was spawned
ReaderIdle == x_pc = "stopped" /\ lp_joined = {}
HkLastInit == [pre |-> << >>, called |-> << >>, failed |-> << >>, err |-> None,
               reentered |-> 0, nested |-> << >>]
HookIdle ==
    /\ hk_stored = << >>
    /\ hk_hooks = << >>
    /\ hk_pc = "idle"
    /\ hk_i = 0
    /\ hk_res = "Ok"
    /\ hk_last = HkLastInit
    /\ hk_chan = << >>
    /\ hk_waiting = {}
PoolIdle ==
    /\ pl_chan = << >>
    /\ pl_workers = << >>
    /\ pl_owner = "dropped"
    /\ pl_sent = 0
    /\ pl_joined = 0
    /\ pl_njobs = 0
    /\ pl_log = << >>
MgIterInit == [kind |-> "none", steps |-> << >>, acts |-> << >>, hook_ok |-> TRUE]
MgrIdle ==
    /\ mg_running = FALSE
    /\ mg_pc = "done"
    /\ mg_actions = << >>
    /\ mg_todo = << >>
    /\ mg_iter = MgIterInit
    /\ mg_lost = FALSE
    /\ mg_nevents = 0
RpcIdle ==
    /\ rc_inbox = << >>
    /\ rc_cur = None
    /\ rc_tx = << >>
    /\ rc_buf = << >>
    /\ rc_pc = << >>
    /\ rc_got = << >>
    /\ rc_sent = << >>
    /\ rc_ncalls = << >>
ArrIdle ==
    /\ ar_ws = << >>
    /\ ar_clients = << >>
    /\ ar_out = None
ExtIdle == ReaderIdle /\ HookIdle /\ PoolIdle /\ MgrIdle /\ RpcIdle /\ ArrIdle

-----------------------------------------------------------------------------
(* SpecRing: a Ring<T> built by Ring::new or Ring::from and driven by any   *)
(* sequence of its operations.                                              *)

InitRing ==
    /\ overflow_checks \in BOOLEAN
    /\ panicked = FALSE
    /\ ring \in {RingFrom(v) : v \in BoundedSeq(Elems, MaxRingLen)}
    /\ rlast = RLastInit
    /\ WsIdle /\ ScrIdle /\ LoopIdle /\ ExtIdle

\* The call `op` with outcome o has run on the ring
RingStep(o, last) ==
    /\ ~panicked
    /\ ring' = o.ring
    /\ panicked' = o.panic
    /\ rlast' = [last EXCEPT !.pre = ring, !.ret = o.ret]
    /\ UNCHANGED <<overflow_checks, wsVars, scrVars, loopVars, extVars>>

\* Index arguments: the valid ones and some past the end
IndexArgs == 0..MaxRingLen

RInsert ==
    \E t \in Elems, ip \in {IpFirst, IpLast, IpFocused, IpAfterFocused} \cup {IpIndex(i) : i \in IndexArgs} :
        /\ RingLen(ring) < MaxRingLen
        /\ RingStep(RingInsert(ring, t, ip), [RLastInit EXCEPT !.op = "insert", !.t = t, !.ip = ip])

RRotate ==
    \E d \in Direction :
        RingStep(RingRotate(ring, d), [RLastInit EXCEPT !.op = "rotate", !.dir = d])

RCycleFocus ==
    \E d \in Direction :
        RingStep(RingCycleFocus(ring, d), [RLastInit EXCEPT !.op = "cycle_focus", !.dir = d])

RFocus ==
    \E t \in Elems :
        RingStep(RingFocus(ring, t), [RLastInit EXCEPT !.op = "focus", !.t = t])

RDragFocused ==
    \E d \in Direction :
        RingStep(RingDragFocused(ring, d), [RLastInit EXCEPT !.op = "drag_focused", !.dir = d])

RRemove ==
    \E i \in IndexArgs :
        RingStep(RingRemove(ring, i), [RLastInit EXCEPT !.op = "remove", !.i = i])

RRemoveFocused ==
    RingStep(RingRemoveFocused(ring), [RLastInit EXCEPT !.op = "remove_focused"])

RSwap ==
    \E i \in IndexArgs, j \in IndexArgs :
        RingStep(RingSwap(ring, i, j), [RLastInit EXCEPT !.op = "swap", !.i = i, !.j = j])

RSwapFocusedWithFront ==
    RingStep(RingSwapFocusedWithFront(ring), [RLastInit EXCEPT !.op = "swap_focused_with_front"])

NextRing ==
    \/ RInsert
    \/ RRotate
    \/ RCycleFocus
    \/ RFocus
    \/ RDragFocused
    \/ RRemove
    \/ RRemoveFocused
    \/ RSwap
    \/ RSwapFocusedWithFront

SpecRing == InitRing /\ [][NextRing]_vars

-----------------------------------------------------------------------------
(* Claims about Ring *)

\* C1: in every ring reachable from Ring::new / Ring::from by the Ring
\* operations, 0 <= focused < max(1, len): the focused index is a valid
\* index, or 0 when the ring is empty.
C1_FocusedInRange ==
    /\ ring.focused >= 0
    /\ ring.focused < Max(1, RingLen(ring))

-----------------------------------------------------------------------------
(* SpecWorkspace: a Workspace built by Workspace::new and driven by any     *)
(* sequence of its operations.                                              *)

\* Client ids
Xids == Elems

LayoutWrap == [symbol |-> "wrap", allow_wrapping |-> TRUE]
LayoutNoWrap == [symbol |-> "nowrap", allow_wrapping |-> FALSE]
\* The layout lists the harness hands to Workspace::new
LayoutThird == [symbol |-> "third", allow_wrapping |-> TRUE]
LayoutLists == {<<LayoutWrap>>, <<LayoutNoWrap>>, <<LayoutWrap, LayoutNoWrap>>,
                <<LayoutWrap, LayoutNoWrap, LayoutThird>>}
Symbols == {"wrap", "nowrap", "other"}

InitWorkspace ==
    /\ overflow_checks \in BOOLEAN
    /\ panicked = FALSE
    /\ ws \in {WorkspaceNew(l) : l \in LayoutLists}
    /\ wlast = WLastInit
    /\ RingIdle /\ ScrIdle /\ LoopIdle /\ ExtIdle

WsStep(o, last) ==
    /\ ~panicked
    /\ ws' = o.ws
    /\ panicked' = o.panic
    /\ wlast' = [last EXCEPT !.pre = ws, !.ret = o.ret]
    /\ UNCHANGED <<overflow_checks, ringVars, scrVars, loopVars, extVars>>

WAddClient ==
    \E id \in Xids, ip \in {IpFirst, IpLast, IpFocused, IpAfterFocused} \cup {IpIndex(i) : i \in IndexArgs} :
        /\ RingLen(ws.clients) < MaxRingLen
        /\ WsStep(WsAddClient(ws, id, ip), [WLastInit EXCEPT !.op = "add_client", !.id = id, !.ip = ip])

WRemoveClient ==
    \E id \in Xids :
        WsStep(WsRemoveClient(ws, id), [WLastInit EXCEPT !.op = "remove_client", !.id = id])

WTrySetLayout ==
    \E sym \in Symbols :
        WsStep(WsTrySetLayout(ws, sym), [WLastInit EXCEPT !.op = "try_set_layout", !.symbol = sym])

WCycleLayout ==
    \E d \in Direction :
        WsStep(WsCycleLayout(ws, d), [WLastInit EXCEPT !.op = "cycle_layout", !.dir = d])

WCycleClient ==
    \E d \in Direction :
        WsStep(WsCycleClient(ws, d), [WLastInit EXCEPT !.op = "cycle_client", !.dir = d])

WDragClient ==
    \E d \in Direction :
        WsStep(WsDragClient(ws, d), [WLastInit EXCEPT !.op = "drag_client", !.dir = d])

WRotateClients ==
    \E d \in Direction :
        WsStep(WsRotateClients(ws, d), [WLastInit EXCEPT !.op = "rotate_clients", !.dir = d])

NextWorkspace ==
    \/ WAddClient
    \/ WRemoveClient
    \/ WTrySetLayout
    \/ WCycleLayout
    \/ WCycleClient
    \/ WDragClient
    \/ WRotateClients

SpecWorkspace == InitWorkspace /\ [][NextWorkspace]_vars

-----------------------------------------------------------------------------
(* Claims about Workspace *)

\* number of occurrences of x in the sequence q
Count(q, x) == Cardinality({k \in 1..Len(q) : q[k] = x})

\* A workspace's client list holds each Xid at most once
ClientsUnique == \A x \in Xids : Count(client_ids(ws), x) <= 1

\* C3: a workspace's client list holds each Xid at most once, and
\* add_client(id, ip) returns an error and leaves the client list unchanged
\* when id is already present, and returns Ok and adds id exactly once when
\* it is absent.
C3_AddClientKeepsIdsUnique ==
    /\ ClientsUnique
    /\ wlast.op = "add_client" =>
          IF DequeContains(client_ids(wlast.pre), wlast.id)
          THEN ~panicked /\ wlast.ret = ResErr /\ client_ids(ws) = client_ids(wlast.pre)
          ELSE ~panicked /\ wlast.ret = ResOk /\ Count(client_ids(ws), wlast.id) = 1

-----------------------------------------------------------------------------
(* SpecScreens: the state after construction (Screens::default(), every     *)
(* workspace holding its clients) driven by any sequence of detect_screens  *)
(* and focus_workspace calls.                                               *)

\* A workspace holding the given clients, the focus on the client at index f
WorkspaceWith(ids, f) == [WorkspaceNew(<<LayoutWrap>>) EXCEPT !.clients = [inner |-> ids, focused |-> f]]

\* The client lists the workspaces start with: the first workspace holds
\* clients 1 and 2 with the focus on 2, the last one client 3, the others none
ClientConfigs ==
    { [k \in 1..NWorkspaces |->
          IF k = 1 THEN WorkspaceWith(<<1, 2>>, 1)
          ELSE IF k = NWorkspaces THEN WorkspaceWith(<<3>>, 0)
          ELSE WorkspaceWith(<< >>, 0)] }

\* The region lists the display server reports: n screens in one of two geometries
DetectedLists == {[i \in 1..n |-> <<v, i>>] : n \in 0..MaxScreens, v \in {"a", "b"}}

InitScreens ==
    /\ overflow_checks \in BOOLEAN
    /\ panicked = FALSE
    /\ screens = ScreensDefault
    /\ workspaces \in {[inner |-> c, focused |-> 0, prev |-> 0] : c \in ClientConfigs}
    /\ slast = SLastInit
    /\ RingIdle /\ WsIdle /\ LoopIdle /\ ExtIdle

\* actions::screen::detect_screens(&mut screens, &x, c.workspaces.len())
SDetectScreens ==
    \E det \in {[ok |-> FALSE, rs |-> << >>]} \cup {[ok |-> TRUE, rs |-> rs] : rs \in DetectedLists} :
        LET o == DetectScreens(screens, det, Len(workspaces.inner)) IN
        /\ ~panicked
        /\ screens' = o.s
        /\ panicked' = (o.res = "Panic")
        /\ slast' = [SLastInit EXCEPT !.op = "detect_screens", !.det = det, !.pre_s = screens,
                                      !.pre_w = workspaces, !.res = o.res, !.rpcs = o.rpcs]
        /\ UNCHANGED <<overflow_checks, workspaces, ringVars, wsVars, loopVars, extVars>>

\* actions::workspace::focus_workspace(index, &mut screens, &mut workspaces, &x),
\* for a valid index or the first invalid one
SFocusWorkspace ==
    \E index \in 0..Len(workspaces.inner) :
        \E fail \in 0..FocusWorkspaceCalls(index, screens, workspaces) :
            LET o == FocusWorkspace(index, screens, workspaces, fail) IN
            /\ ~panicked
            /\ screens' = o.s
            /\ workspaces' = o.w
            /\ panicked' = (o.res = "Panic")
            /\ slast' = [SLastInit EXCEPT !.op = "focus_workspace", !.index = index, !.fail = fail,
                                          !.pre_s = screens, !.pre_w = workspaces,
                                          !.res = o.res, !.log = o.log]
            /\ UNCHANGED <<overflow_checks, ringVars, wsVars, loopVars, extVars>>

\* focus_screen(selector), for the screens that exist and the first index past them
SFocusScreen ==
    \E i \in 0..Len(screens.inner) :
        LET o == FocusScreen(screens, i) IN
        /\ ~panicked
        /\ screens' = o.s
        /\ panicked' = (o.res = "Panic")
        /\ slast' = [SLastInit EXCEPT !.op = "focus_screen", !.index = i, !.pre_s = screens,
                                      !.pre_w = workspaces, !.res = o.res, !.rpcs = o.rpcs]
        /\ UNCHANGED <<overflow_checks, workspaces, ringVars, wsVars, loopVars, extVars>>

NextScreens ==
    \/ SDetectScreens
    \/ SFocusWorkspace

SpecScreens == InitScreens /\ [][NextScreens]_vars

\* The same state driven by focus_screen as well, for the claims about the
\* focused screen
NextScreenFocus ==
    \/ SDetectScreens
    \/ SFocusWorkspace
    \/ SFocusScreen

SpecScreenFocus == InitScreens /\ [][NextScreenFocus]_vars

-----------------------------------------------------------------------------
(* Claims about Screens, detect_screens and focus_workspace *)

\* The entries of a sequence are pairwise distinct
Distinct(q) == \A i, j \in 1..Len(q) : i # j => q[i] # q[j]

\* The screens (indices into s.inner) that display workspace t
ScreensShowing(s, t) ==
    {i \in 0..(Len(s.inner) - 1) : i < Len(s.workspaces) /\ s.workspaces[i + 1] = t}
\* The lowest of them
FirstScreenShowing(s, t) ==
    CHOOSE i \in ScreensShowing(s, t) : \A j \in ScreensShowing(s, t) : i <= j

\* The last action was focus_workspace(index) with index not the focused
\* workspace, called with a focused screen to take the active workspace from
FocusCall ==
    /\ slast.op = "focus_workspace"
    /\ slast.index # slast.pre_w.focused
    /\ slast.pre_s.focused < Len(slast.pre_s.workspaces)
\* The workspace on the focused screen when the call started
ActiveBefore == slast.pre_s.workspaces[slast.pre_s.focused + 1]
\* ... and the target was displayed, first on a screen other than the focused one
SwapCall ==
    /\ FocusCall
    /\ ScreensShowing(slast.pre_s, slast.index) # {}
    /\ FirstScreenShowing(slast.pre_s, slast.index) # slast.pre_s.focused
\* ... and the target, a workspace of the configuration, was displayed on no screen
HiddenCall ==
    /\ FocusCall
    /\ ScreensShowing(slast.pre_s, slast.index) = {}
    /\ slast.index < Len(slast.pre_w.inner)

\* The entries of the log made by the steps of the given kinds
LogOf(kinds) == SelectSeq(slast.log, LAMBDA e : e.k \in kinds)
\* q is a prefix of r
IsPrefix(q, r) == Len(q) <= Len(r) /\ SubSeq(r, 1, Len(q)) = q

\* C2: after any sequence of focus_workspace and detect_screens calls,
\* screens.workspaces is as long as the list of screen regions and holds no
\* workspace index twice.
C2_OneWorkspacePerScreen ==
    ~panicked =>
        /\ Len(screens.workspaces) = Len(screens.inner)
        /\ Distinct(screens.workspaces)

ExpectedMapping ==
    LET a == client_ids(slast.pre_w.inner[ActiveBefore + 1])
        t == client_ids(slast.pre_w.inner[slast.index + 1])
    IN [k \in 1..Len(a) |-> StUnmap(a[k])] \o [k \in 1..Len(t) |-> StMap(t[k])]

C7_FocusedTargetIsNoOp ==
    (slast.op = "focus_workspace" /\ slast.index = slast.pre_w.focused) =>
        /\ slast.res = "Ok"
        /\ ~panicked
        /\ screens = slast.pre_s
        /\ workspaces = slast.pre_w
        /\ slast.log = << >>
C7_Witness ==
    /\ slast.op = "focus_workspace"
    /\ slast.index = slast.pre_w.focused
    /\ Len(screens.workspaces) > 0
    /\ workspaces.prev # workspaces.focused

\* The last action was detect_screens and the display server answered
DetectCall == slast.op = "detect_screens" /\ slast.det.ok

\* C8: when detect_screens sees more regions than there are entries in
\* screens.workspaces, it keeps the entries and appends, for each new screen
\* in order, the lowest workspace index in 0..n_workspaces not displayed yet
\* (two regions on an empty Screens give [0, 1]).
C8_GrowAppendsLowestFree ==
    (DetectCall /\ slast.det.rs # slast.pre_s.inner
        /\ Len(slast.det.rs) > Len(slast.pre_s.workspaces)) =>
        /\ ~panicked
        /\ screens.workspaces =
              slast.pre_s.workspaces
              \o Take(NotDisplayed(slast.pre_s, Len(workspaces.inner)),
                      Len(slast.det.rs) - Len(slast.pre_s.workspaces))

\* C9: detect_screens returns no request and leaves Screens unchanged when
\* the detected regions equal the current ones; otherwise it replaces the
\* regions and returns exactly ApplyLayout{ws: None} and then
\* RunHook{ScreenUpdated} with the new regions.
C9_DetectRequests ==
    DetectCall =>
        IF slast.det.rs = slast.pre_s.inner
        THEN /\ slast.res = "Ok"
             /\ slast.rpcs = << >>
             /\ screens = slast.pre_s
        ELSE /\ slast.res = "Ok"
             /\ screens.inner = slast.det.rs
             /\ slast.rpcs = <<RpcApplyLayoutAll, RpcScreenUpdated(slast.det.rs)>>

-----------------------------------------------------------------------------
(* SpecLoop: the main loop of event_loop (src/v3/event/mod.rs) and the      *)
(* threads that hold a clone of the sender of its inbound channel.          *)
(*                                                                          *)
(* chan     the requests in the channel, oldest first                       *)
(* running  s.running                                                       *)
(* loop_pc  where the loop thread is: "while" (testing s.running), "recv"   *)
(*          (blocked in rx.recv()), "handle" (inside evt.handle) or "done"  *)
(* cur      the request evt.handle is running on, as an Option              *)
(* arrived  every request sent so far, in the order the channel took them   *)
(* handled  every request whose evt.handle has returned, in that order      *)
(* nerrors  the number of calls made to error_handler                       *)

\* The most requests the producers send in one run
MaxSent == 3

\* The threads that send: the reader of the display server, a hook, a worker
Producers == {"server", "hook", "worker"}

\* A request: who sent it, its number in arrival order, whether it is ShutDown
\* and whether its handler returns Ok (ShutDown's always does)
Request(p, n, kind, ok) == [from |-> p, seq |-> n, kind |-> kind, ok |-> ok]
RequestKinds == {[kind |-> "Rpc", ok |-> TRUE], [kind |-> "Rpc", ok |-> FALSE], [kind |-> "ShutDown", ok |-> TRUE]}

\* A receive that takes the request sent last, as a stack would
ChanRecvNewest(q) == [evt |-> q[Len(q)], rest |-> SubSeq(q, 1, Len(q) - 1)]

\* rx.recv() on a non-empty channel: the oldest request, and what stays behind
ChanRecv(q) == [evt |-> Head(q), rest |-> Tail(q)]

\* tx.send(r) on the channel
ChanSend(q, r) == Append(q, r)

InitLoop ==
    /\ overflow_checks \in BOOLEAN
    /\ panicked = FALSE
    /\ chan = << >>
    /\ running = TRUE
    /\ loop_pc = "while"
    /\ cur = None
    /\ arrived = << >>
    /\ handled = << >>
    /\ nerrors = 0
    /\ x_pc = "wait"
    /\ lp_joined = {}
    /\ RingIdle /\ WsIdle /\ ScrIdle /\ HookIdle /\ PoolIdle /\ MgrIdle /\ RpcIdle /\ ArrIdle

\* A producer sends a request on its clone of the sender
LSend ==
    \E p \in Producers, k \in RequestKinds :
        LET r == Request(p, Len(arrived) + 1, k.kind, k.ok) IN
        /\ loop_pc # "done"
        /\ Len(arrived) < MaxSent
        /\ chan' = ChanSend(chan, r)
        /\ arrived' = Append(arrived, r)
        /\ UNCHANGED <<commonVars, ringVars, wsVars, scrVars, running, loop_pc, cur, handled, nerrors, extVars>>

\* while s.running { .. }; after the loop ("// Clean up threads": no
\* statement, no thread is signalled or joined) event_loop returns Ok(())
LWhile ==
    /\ loop_pc = "while"
    /\ loop_pc' = IF running THEN "recv" ELSE "done"
    /\ UNCHANGED <<commonVars, ringVars, wsVars, scrVars, chan, running, cur, arrived, handled, nerrors, extVars>>

\* match rx.recv() { Ok(evt) => .. }: blocks while the channel is empty
LRecv ==
    /\ loop_pc = "recv"
    /\ chan # << >>
    /\ cur' = Some(ChanRecv(chan).evt)
    /\ chan' = ChanRecv(chan).rest
    /\ loop_pc' = "handle"
    /\ UNCHANGED <<commonVars, ringVars, wsVars, scrVars, running, arrived, handled, nerrors, extVars>>

\* if let Err(err) = evt.handle(&mut s) { error_handler(err); }
LHandle ==
    /\ loop_pc = "handle"
    /\ running' = IF cur[1].kind = "ShutDown" THEN FALSE ELSE running
    /\ nerrors' = IF cur[1].ok THEN nerrors ELSE nerrors + 1
    /\ handled' = Append(handled, cur[1])
    /\ cur' = None
    /\ loop_pc' = "while"
    /\ UNCHANGED <<commonVars, ringVars, wsVars, scrVars, chan, arrived, extVars>>

\* The x thread: while x_running { let x_event = &x.wait_for_event().unwrap(); .. }.
\* x_running is never set to false; an Err from wait_for_event panics the thread
XWaitForEvent ==
    \E ok \in BOOLEAN :
        /\ x_pc = "wait"
        /\ x_pc' = IF ok THEN "wait" ELSE "panicked"
        /\ UNCHANGED <<commonVars, ringVars, wsVars, scrVars, loopVars, lp_joined, hookVars, poolVars, mgrVars, rpcVars, arrVars>>

NextLoop ==
    \/ LSend
    \/ LWhile
    \/ LRecv
    \/ LHandle
    \/ XWaitForEvent

SpecLoop == InitLoop /\ [][NextLoop]_vars

-----------------------------------------------------------------------------
(* Claims about the event loop *)

\* C10: the event loop handles the requests one at a time and in the order
\* they arrived on the inbound channel, whoever sent them: at most one request
\* is inside its handler, and the requests handled so far, then the one being
\* handled, then the ones still in the channel are exactly the requests that
\* arrived, in arrival order.
C10_HandledInArrivalOrder ==
    /\ Len(cur) <= 1
    /\ (cur # None) <=> (loop_pc = "handle")
    /\ arrived = handled \o cur \o chan
    /\ \A k \in 1..Len(handled) : handled[k].seq = k
C10_Witness ==
    /\ Len(handled) >= 1
    /\ cur # None
    /\ chan # << >>
    /\ handled[1].from # cur[1].from
    /\ cur[1].from # chan[1].from
    /\ handled[1].from # chan[1].from

\* A ShutDown request has been handled
ShutDownHandled == \E k \in 1..Len(handled) : handled[k].kind = "ShutDown"

\* C16: handling the Exit (ShutDown) request sets running to false; after it
\* the loop handles no further request, and when event_loop has returned Ok
\* the server reader thread has stopped and been joined and the worker pool
\* has been dropped, its threads joined.
C16_ShutdownStopsAndJoins ==
    /\ ShutDownHandled =>
          /\ ~running
          /\ handled[Len(handled)].kind = "ShutDown"
          /\ cur = None
    /\ loop_pc = "done" =>
          /\ ShutDownHandled
          /\ x_pc = "stopped"
          /\ lp_joined = {"x", "workers"}

-----------------------------------------------------------------------------
(* SpecHooks: HookRunner::run (src/v3/hook.rs) called on the loop thread,   *)
(* each hook being handed a clone of the WmHandle (src/v3/handle.rs), and   *)
(* worker threads that use the same handle.  The loop thread is the only    *)
(* receiver of the inbound channel: it serves a request, and replies to     *)
(* it, between two dispatches.                                              *)

\* Number of hooks the user may register
MaxHooks == 3
\* Number of worker threads that hold a handle
MaxHandleUsers == 2

HookIds == 1..MaxHooks
HandleUsers == {<<"worker", k>> : k \in 1..MaxHandleUsers}
LoopThread == <<"loop", 0>>

\* What a hook does when called: return Ok, return Err, call
\* h.add_client_to_workspace(..) on its handle first, or have run entered
\* again on the same runner before it returns Ok
HookBehaviours == {"ok", "err", "submit", "reenter"}

\* The lists of hooks a HookRunner is built with: no hook twice
HookLists == {q \in BoundedSeq(HookIds, MaxHooks) : \A i, j \in 1..Len(q) : i # j => q[i] # q[j]}

\* $_self.inner.replace(hooks) that puts the hooks back only after a dispatch
\* without error
HookRestoreOnOk(stored, hooks, res) == IF res = "Ok" THEN hooks ELSE stored

\* $_self.inner.replace(hooks): the Cell's content after the dispatch
HookRestore(stored, hooks, res) == hooks

\* A take of the list that leaves the hooks in the Cell
HookTakeClone(stored) == stored

\* $_self.inner.replace(vec![]): the Cell's content after the hooks were taken
HookTake(stored) == << >>

\* HookRunner::run entered while the hook `outer` of a dispatch is executing:
\* the call takes what the Cell holds, invokes each hook taken (they return
\* Ok) and puts the hooks back.  The outcome is the Cell's content after the
\* call and the hooks invoked, each with the hook that was executing.
NestedRun(stored, outer) ==
    LET hooks == stored
        taken == HookTake(stored)
    IN [stored |-> HookRestore(taken, hooks, "Ok"),
        invoked |-> [k \in 1..Len(hooks) |-> [outer |-> outer, hook |-> hooks[k]]]]

\* rpc_call!: the request r is sent on the inbound channel, then the caller
\* blocks in rx.recv() on the reply channel it packed into r
RpcCallSend(q, caller) == Append(q, [from |-> caller])

InitHooks ==
    /\ overflow_checks \in BOOLEAN
    /\ panicked = FALSE
    /\ hk_stored \in HookLists
    /\ hk_hooks = << >>
    /\ hk_pc = "idle"
    /\ hk_i = 0
    /\ hk_res = "Ok"
    /\ hk_last = HkLastInit
    /\ hk_chan = << >>
    /\ hk_waiting = {}
    /\ RingIdle /\ WsIdle /\ ScrIdle /\ LoopIdle /\ ReaderIdle /\ PoolIdle /\ MgrIdle /\ RpcIdle /\ ArrIdle

\* Everything but the hook runner's variables
notHookVars == <<commonVars, ringVars, wsVars, scrVars, loopVars, readerVars, poolVars, mgrVars, rpcVars, arrVars>>

\* let mut hooks = $_self.inner.replace(vec![]);
HTake ==
    /\ hk_pc \in {"idle", "returned"}
    /\ hk_hooks' = hk_stored
    /\ hk_stored' = HookTake(hk_stored)
    /\ hk_i' = 0
    /\ hk_res' = "Ok"
    /\ hk_last' = [HkLastInit EXCEPT !.pre = hk_stored]
    /\ hk_pc' = "iter"
    /\ UNCHANGED <<notHookVars, hk_chan, hk_waiting>>

\* hooks.iter_mut().try_for_each(|h| h.$method($_self.h.clone(), ..)): one call
\* of a hook; try_for_each stops at the first Err
HCallHook ==
    \E b \in HookBehaviours :
        /\ hk_pc = "iter"
        /\ hk_i < Len(hk_hooks)
        /\ LET h == hk_hooks[hk_i + 1]
               n == NestedRun(hk_stored, h)
           IN
           /\ hk_last' = [hk_last EXCEPT !.called = Append(@, h),
                                         !.failed = IF b = "err" THEN Append(@, h) ELSE @,
                                         !.err = IF b = "err" THEN Some(h) ELSE @,
                                         !.reentered = IF b = "reenter" THEN @ + 1 ELSE @,
                                         !.nested = IF b = "reenter" THEN @ \o n.invoked ELSE @]
           /\ CASE b = "ok" ->
                     /\ hk_i' = hk_i + 1
                     /\ UNCHANGED <<hk_pc, hk_res, hk_chan, hk_waiting, hk_stored>>
                [] b = "err" ->
                     /\ hk_res' = "Err"
                     /\ hk_pc' = "restore"
                     /\ UNCHANGED <<hk_i, hk_chan, hk_waiting, hk_stored>>
                [] b = "submit" ->
                     /\ hk_chan' = RpcCallSend(hk_chan, LoopThread)
                     /\ hk_waiting' = hk_waiting \cup {LoopThread}
                     /\ hk_pc' = "await_reply"
                     /\ UNCHANGED <<hk_i, hk_res, hk_stored>>
                [] b = "reenter" ->
                     /\ hk_stored' = n.stored
                     /\ hk_i' = hk_i + 1
                     /\ UNCHANGED <<hk_pc, hk_res, hk_chan, hk_waiting>>
        /\ UNCHANGED <<notHookVars, hk_hooks>>

\* try_for_each has called every hook
HIterDone ==
    /\ hk_pc = "iter"
    /\ hk_i = Len(hk_hooks)
    /\ hk_pc' = "restore"
    /\ UNCHANGED <<notHookVars, hk_stored, hk_hooks, hk_i, hk_res, hk_last, hk_chan, hk_waiting>>

\* $_self.inner.replace(hooks); res
HRestore ==
    /\ hk_pc = "restore"
    /\ hk_stored' = HookRestore(hk_stored, hk_hooks, hk_res)
    /\ hk_hooks' = << >>
    /\ hk_pc' = "returned"
    /\ UNCHANGED <<notHookVars, hk_i, hk_res, hk_last, hk_chan, hk_waiting>>

\* A worker thread calls add_client_to_workspace on its handle
HWorkerCall ==
    \E t \in HandleUsers :
        /\ t \notin hk_waiting
        /\ hk_chan' = RpcCallSend(hk_chan, t)
        /\ hk_waiting' = hk_waiting \cup {t}
        /\ UNCHANGED <<notHookVars, hk_stored, hk_hooks, hk_pc, hk_i, hk_res, hk_last>>

\* The loop thread, between two dispatches, receives the oldest request and
\* sends Ok(()) on its reply channel: the caller's rx.recv() returns
HServe ==
    /\ hk_pc \in {"idle", "returned"}
    /\ hk_chan # << >>
    /\ hk_chan' = Tail(hk_chan)
    /\ hk_waiting' = hk_waiting \ {Head(hk_chan).from}
    /\ UNCHANGED <<notHookVars, hk_stored, hk_hooks, hk_pc, hk_i, hk_res, hk_last>>

NextHooks ==
    \/ HTake
    \/ HCallHook
    \/ HIterDone
    \/ HRestore
    \/ HWorkerCall
    \/ HServe

SpecHooks == InitHooks /\ [][NextHooks]_vars

-----------------------------------------------------------------------------
(* Claims about the hook runner *)

\* C11: a hook called by the hook runner on the loop thread can submit a
\* request through its handle without deadlock: the loop thread, the only
\* thread that receives from the inbound channel and replies, is never
\* itself blocked waiting for the reply to a request it sent from a hook.
C11_HookSubmitsWithoutDeadlock ==
    ~(hk_pc = "await_reply" /\ LoopThread \in hk_waiting)

\* C12: when HookRunner::run has returned, every hook of the stored list was
\* invoked for the trigger, also after one of them returned an error, and
\* the result is an error exactly when some hook failed: the error of the
\* hook that failed first.
C12_AllHooksRunAfterError ==
    hk_pc = "returned" =>
        /\ hk_last.called = hk_last.pre
        /\ (hk_res = "Err") <=> (hk_last.failed # << >>)
        /\ hk_last.failed # << >> => hk_last.err = Some(hk_last.failed[1])

\* C13: while a dispatch is under way the stored list is empty, and once
\* HookRunner::run has returned, with Ok or with an error, the stored list
\* holds the hooks it held before the call, in the same order.
C13_ListTakenAndRestored ==
    /\ hk_pc \in {"iter", "await_reply", "restore"} => hk_stored = << >>
    /\ hk_pc = "returned" => hk_stored = hk_last.pre
C13_Witness ==
    /\ hk_pc = "returned"
    /\ hk_res = "Err"
    /\ Len(hk_last.pre) >= 2
    /\ hk_last.pre[1] > hk_last.pre[2]

\* C40: when HookRunner::run is entered again while a dispatch is under
\* way, the nested call invokes no hook, so that no hook is executing twice
\* at the same time, and once the outer call has returned as well the stored
\* list is the list of hooks held before the dispatch.
C40_NestedRunInvokesNothing ==
    /\ hk_last.nested = << >>
    /\ \A k \in 1..Len(hk_last.nested) : hk_last.nested[k].hook # hk_last.nested[k].outer
    /\ (hk_pc = "returned" /\ hk_last.reentered > 0) => hk_stored = hk_last.pre
C40_Witness ==
    /\ hk_pc = "returned"
    /\ hk_last.reentered >= 1
    /\ Len(hk_last.pre) >= 2
    /\ hk_res = "Err"

-----------------------------------------------------------------------------
(* SpecPool: a Pool (src/v3/worker.rs) of `size` workers, the thread that   *)
(* owns it (it calls exec, then drops the pool) and the worker threads.     *)
(* A job is a user closure: it returns, or it panics, which ends the        *)
(* worker thread that runs it (the worker does not catch the unwind).       *)

\* Largest pool size
MaxWorkers == 2
\* Most jobs handed to Pool::exec
MaxJobs == 2

MsgJob(id, panics) == [kind |-> "Job", id |-> id, panics |-> panics]
MsgShutDown == [kind |-> "ShutDown", id |-> 0, panics |-> FALSE]

\* A worker blocked in rx.recv()
WorkerAt(pc) == [pc |-> pc, job |-> 0, panics |-> FALSE, shut |-> 0]

\* Some Receiver of the pool's channel is alive: a worker thread that has
\* not ended (Pool::new drops its own rx when it returns)
ReceiverAlive(workers) == \E k \in 1..Len(workers) : workers[k].pc \in {"recv", "run"}

InitPool ==
    /\ overflow_checks \in BOOLEAN
    /\ panicked = FALSE
    /\ pl_chan = << >>
    /\ pl_workers \in {[k \in 1..n |-> WorkerAt("recv")] : n \in 1..MaxWorkers}
    /\ pl_owner = "live"
    /\ pl_sent = 0
    /\ pl_joined = 0
    /\ pl_njobs = 0
    /\ pl_log = << >>
    /\ RingIdle /\ WsIdle /\ ScrIdle /\ LoopIdle /\ ReaderIdle /\ HookIdle /\ MgrIdle /\ RpcIdle /\ ArrIdle

notPoolVars == <<commonVars, ringVars, wsVars, scrVars, loopVars, readerVars, hookVars, mgrVars, rpcVars, arrVars>>

\* Pool::exec(f): self.tx.send(Message::Job(Box::new(f))).unwrap()
PExec ==
    \E p \in BOOLEAN :
        /\ pl_owner = "live"
        /\ pl_njobs < MaxJobs
        /\ IF ReceiverAlive(pl_workers)
           THEN /\ pl_chan' = Append(pl_chan, MsgJob(pl_njobs + 1, p))
                /\ pl_njobs' = pl_njobs + 1
                /\ UNCHANGED pl_owner
           ELSE /\ pl_owner' = "exec_panicked"
                /\ UNCHANGED <<pl_chan, pl_njobs>>
        /\ UNCHANGED <<notPoolVars, pl_workers, pl_sent, pl_joined, pl_log>>

\* The pool goes out of scope: Drop::drop starts
PDrop ==
    /\ pl_owner = "live"
    /\ pl_owner' = "drop_send"
    /\ UNCHANGED <<notPoolVars, pl_chan, pl_workers, pl_sent, pl_joined, pl_njobs, pl_log>>

\* for _ in &self.workers { self.tx.send(Message::ShutDown).unwrap(); }
PDropSend ==
    /\ pl_owner = "drop_send"
    /\ IF pl_sent = Len(pl_workers)
       THEN /\ pl_owner' = "drop_join"
            /\ UNCHANGED <<pl_chan, pl_sent>>
       ELSE IF ReceiverAlive(pl_workers)
       THEN /\ pl_chan' = Append(pl_chan, MsgShutDown)
            /\ pl_sent' = pl_sent + 1
            /\ UNCHANGED pl_owner
       ELSE /\ pl_owner' = "drop_panicked"
            /\ UNCHANGED <<pl_chan, pl_sent>>
    /\ UNCHANGED <<notPoolVars, pl_workers, pl_joined, pl_njobs, pl_log>>

\* for w in self.workers.drain(0..) { w.handle.join().unwrap(); }: join waits
\* for the thread to end and returns Err when it ended by a panic
PDropJoin ==
    /\ pl_owner = "drop_join"
    /\ IF pl_joined = Len(pl_workers)
       THEN /\ pl_owner' = "dropped"
            /\ UNCHANGED pl_joined
       ELSE /\ pl_workers[pl_joined + 1].pc \in {"exited", "dead"}
            /\ IF pl_workers[pl_joined + 1].pc = "dead"
               THEN /\ pl_owner' = "drop_panicked"
                    /\ UNCHANGED pl_joined
               ELSE /\ pl_joined' = pl_joined + 1
                    /\ UNCHANGED pl_owner
    /\ UNCHANGED <<notPoolVars, pl_chan, pl_workers, pl_sent, pl_njobs, pl_log>>

\* while let Ok(m) = rx.recv() { match m { Job(j) => .., ShutDown => return } }:
\* worker w receives the oldest message
PWorkerRecv ==
    \E w \in 1..Len(pl_workers) :
        /\ pl_workers[w].pc = "recv"
        /\ pl_chan # << >>
        /\ pl_chan' = Tail(pl_chan)
        /\ LET m == Head(pl_chan) IN
           IF m.kind = "Job"
           THEN /\ pl_workers' = [pl_workers EXCEPT ![w].pc = "run", ![w].job = m.id, ![w].panics = m.panics]
                /\ pl_log' = Append(pl_log, [job |-> m.id, worker |-> w])
           ELSE /\ pl_workers' = [pl_workers EXCEPT ![w].pc = "exited", ![w].shut = @ + 1]
                /\ UNCHANGED pl_log
        /\ UNCHANGED <<notPoolVars, pl_owner, pl_sent, pl_joined, pl_njobs>>

\* j(): the job returns, and the worker receives again, or it panics, and the
\* worker thread ends
PWorkerRun ==
    \E w \in 1..Len(pl_workers) :
        /\ pl_workers[w].pc = "run"
        /\ pl_workers' = [pl_workers EXCEPT ![w].pc = IF pl_workers[w].panics THEN "dead" ELSE "recv",
                                            ![w].job = 0, ![w].panics = FALSE]
        /\ UNCHANGED <<notPoolVars, pl_chan, pl_owner, pl_sent, pl_joined, pl_njobs, pl_log>>

\* (rx.recv() never returns Err to a worker: while the owner is alive it holds
\* the Sender, and it sends every ShutDown before the first join can panic, so
\* a worker that is still receiving always finds a message.)

NextPool ==
    \/ PExec
    \/ PDrop
    \/ PDropSend
    \/ PDropJoin
    \/ PWorkerRecv
    \/ PWorkerRun

SpecPool == InitPool /\ [][NextPool]_vars

-----------------------------------------------------------------------------
(* Claims about the worker pool *)

\* How often job j was started
TimesRun(j) == Cardinality({k \in 1..Len(pl_log) : pl_log[k].job = j})
\* Nothing more can happen: the owner is through and every worker has ended
PoolQuiescent ==
    /\ pl_owner \in {"dropped", "exec_panicked", "drop_panicked"}
    /\ \A w \in 1..Len(pl_workers) : pl_workers[w].pc \in {"exited", "dead"}

\* C14: every job accepted by Pool::exec is run exactly once, by one worker,
\* whatever the interleaving: no job is ever started twice, and once the
\* owner is through and every worker thread has ended, each accepted job,
\* those still queued when the pool was dropped included, has been run.
C14_EveryJobRunsOnce ==
    /\ \A j \in 1..pl_njobs : TimesRun(j) <= 1
    /\ PoolQuiescent => \A j \in 1..pl_njobs : TimesRun(j) = 1

\* C15: dropping a Pool of n workers sends n ShutDown messages, each worker
\* consumes exactly one and exits, and drop returns only after all n have
\* been joined; drop ends by returning, never by a panic.
C15_DropShutsDownAndJoins ==
    /\ pl_owner # "drop_panicked"
    /\ pl_owner = "dropped" =>
          /\ pl_sent = Len(pl_workers)
          /\ pl_joined = Len(pl_workers)
          /\ \A w \in 1..Len(pl_workers) : pl_workers[w].pc = "exited" /\ pl_workers[w].shut = 1

-----------------------------------------------------------------------------
(* SpecManager: the main loop of WindowManager::run (src/v3/manager.rs),    *)
(* from `self.running = true` on.  wait_for_event returns an event, which   *)
(* process_next_event turns into a list of actions, or an error: the        *)
(* connection to the server is lost, and every later call fails too.  An    *)
(* action's handler returns Ok or Err, or it is the exit action, which      *)
(* sets self.running to false.                                              *)

\* Most events the server delivers
MaxEvents == 2
\* Most actions process_next_event returns for one event
MaxActions == 2

\* What handle_event_action does with an action
ActionOutcomes == {"ok", "err", "exit"}

\* The calls run makes, as entries of mg_iter.steps
CallHandle == "handle_event_action"
CallErrorHandler == "error_handler"
CallEventHandled == "run_hook(EventHandled)"
CallFlush == "flush"

\* The end of an iteration that skips the hook and the flush after an error
IterationTailSkipOnError(had_error) ==
    IF had_error THEN << >> ELSE <<CallEventHandled, CallFlush>>

\* self.run_hook(HookName::EventHandled); self.x.flush(); the calls that end
\* the iteration for an event, whether a handler returned an error or not
IterationTail(had_error) == <<CallEventHandled, CallFlush>>

InitManager ==
    /\ overflow_checks \in BOOLEAN
    /\ panicked = FALSE
    /\ mg_running = TRUE
    /\ mg_pc = "while"
    /\ mg_actions = << >>
    /\ mg_todo = << >>
    /\ mg_iter = MgIterInit
    /\ mg_lost = FALSE
    /\ mg_nevents = 0
    /\ RingIdle /\ WsIdle /\ ScrIdle /\ LoopIdle /\ ReaderIdle /\ HookIdle /\ PoolIdle /\ RpcIdle /\ ArrIdle

notMgrVars == <<commonVars, ringVars, wsVars, scrVars, loopVars, readerVars, hookVars, poolVars, rpcVars, arrVars>>

\* while self.running { .. }; Ok(())
MWhile ==
    /\ mg_pc = "while"
    /\ mg_pc' = IF mg_running THEN "wait" ELSE "done"
    /\ UNCHANGED <<notMgrVars, mg_running, mg_actions, mg_todo, mg_iter, mg_lost, mg_nevents>>

\* match self.x.wait_for_event() { Ok(event) => { let actions = process_next_event(..); .. }
MWaitOk ==
    \E acts \in BoundedSeq(ActionOutcomes, MaxActions), hook_ok \in BOOLEAN :
        /\ mg_pc = "wait"
        /\ ~mg_lost
        /\ mg_nevents < MaxEvents
        /\ mg_nevents' = mg_nevents + 1
        /\ mg_actions' = acts
        /\ mg_iter' = [kind |-> "event", steps |-> << >>, acts |-> acts, hook_ok |-> hook_ok]
        /\ mg_pc' = "actions"
        /\ UNCHANGED <<notMgrVars, mg_running, mg_todo, mg_lost>>

\* match self.x.wait_for_event() { .. Err(e) => error_handler(Error::X(e)) }
MWaitErr ==
    /\ mg_pc = "wait"
    /\ mg_lost' = TRUE
    /\ mg_iter' = [kind |-> "error", steps |-> <<CallErrorHandler>>, acts |-> << >>, hook_ok |-> TRUE]
    /\ mg_pc' = "while"
    /\ UNCHANGED <<notMgrVars, mg_running, mg_actions, mg_todo, mg_nevents>>

\* for action in actions { if let Err(e) = self.handle_event_action(..) { error_handler(e); } }
MHandleAction ==
    /\ mg_pc = "actions"
    /\ IF mg_actions # << >>
       THEN LET a == Head(mg_actions) IN
            /\ mg_actions' = Tail(mg_actions)
            /\ mg_iter' = [mg_iter EXCEPT !.steps =
                              @ \o (IF a = "err" THEN <<CallHandle, CallErrorHandler>> ELSE <<CallHandle>>)]
            /\ mg_running' = IF a = "exit" THEN FALSE ELSE mg_running
            /\ UNCHANGED <<mg_pc, mg_todo>>
       ELSE /\ mg_todo' = IterationTail(\E k \in 1..Len(mg_iter.steps) : mg_iter.steps[k] = CallErrorHandler)
            /\ mg_pc' = "tail"
            /\ UNCHANGED <<mg_actions, mg_iter, mg_running>>
    /\ UNCHANGED <<notMgrVars, mg_lost, mg_nevents>>

\* The calls after the for loop, one at a time.  run_hook is a statement:
\* whether the hooks returned Ok or Err (mg_iter.hook_ok), nothing is done
\* with it, and error_handler, a parameter of run, is not given to run_hook
MTail ==
    /\ mg_pc = "tail"
    /\ IF mg_todo # << >>
       THEN /\ mg_iter' = [mg_iter EXCEPT !.steps = Append(@, Head(mg_todo))]
            /\ mg_todo' = Tail(mg_todo)
            /\ UNCHANGED mg_pc
       ELSE /\ mg_pc' = "while"
            /\ UNCHANGED <<mg_iter, mg_todo>>
    /\ UNCHANGED <<notMgrVars, mg_running, mg_actions, mg_lost, mg_nevents>>

NextManager ==
    \/ MWhile
    \/ MWaitOk
    \/ MWaitErr
    \/ MHandleAction
    \/ MTail

SpecManager == InitManager /\ [][NextManager]_vars

-----------------------------------------------------------------------------
(* Claims about WindowManager::run *)

\* C17: once wait_for_event has returned an error because the connection to
\* the server is lost, the loop shuts down: running is false and the loop
\* does not wait for an event again.
C17_LostConnectionShutsDown ==
    mg_lost => (~mg_running /\ mg_pc # "wait")

\* The calls of kind c among the steps of the iteration
StepsOf(c) == SelectSeq(mg_iter.steps, LAMBDA x : x = c)

ErrorsReturned ==
    Len(SelectSeq(mg_iter.acts, LAMBDA a : a = "err")) + (IF mg_iter.hook_ok THEN 0 ELSE 1)

\* C30: when the iteration for an event is over, every error returned by a
\* handler or by the hooks has been passed to the error handler, every action
\* of the event has been handled, and running is still true (unless an
\* action asked to exit), so that the loop goes on to the next event.
C30_ErrorsReachHandlerLoopGoesOn ==
    (mg_pc \in {"while", "wait", "done"} /\ mg_iter.kind = "event") =>
        /\ Len(StepsOf(CallErrorHandler)) = ErrorsReturned
        /\ Len(StepsOf(CallHandle)) = Len(mg_iter.acts)
        /\ mg_running = (\A k \in 1..Len(mg_iter.acts) : mg_iter.acts[k] # "exit")
        /\ mg_pc = "done" => ~mg_running

-----------------------------------------------------------------------------
(* SpecRpc: calls through a WmHandle that expect a reply (rpc_call!,        *)
(* src/v3/handle.rs).  Each call creates a channel bounded(1), packs its    *)
(* Sender into the request, sends the request on the inbound channel and    *)
(* blocks in rx.recv().  The receiver of the inbound channel takes the      *)
(* requests in order; it sends one value on the Sender of a request, or     *)
(* drops the request, and the Sender in it, without sending.                *)

\* Calls one thread makes through its handle
MaxCalls == 2

\* Result<()>: the values a reply carries
ReplyValues == {"Ok", "Err"}

\* rx.recv() that does not notice that the Sender is gone
ReplyRecvNoDisconnect(buf, tx) ==
    IF buf # << >> THEN [kind |-> "value", v |-> Head(buf)]
    ELSE [kind |-> "block"]

\* rx.recv() on the reply channel: the oldest value in it; Err(RecvError) when
\* it is empty and its Sender is dropped; blocks otherwise
ReplyRecv(buf, tx) ==
    IF buf # << >> THEN [kind |-> "value", v |-> Head(buf)]
    ELSE IF tx = "dropped" THEN [kind |-> "disconnected"]
    ELSE [kind |-> "block"]

InitRpc ==
    /\ overflow_checks \in BOOLEAN
    /\ panicked = FALSE
    /\ rc_inbox = << >>
    /\ rc_cur = None
    /\ rc_tx = [t \in HandleUsers |-> "none"]
    /\ rc_buf = [t \in HandleUsers |-> << >>]
    /\ rc_pc = [t \in HandleUsers |-> "idle"]
    /\ rc_got = [t \in HandleUsers |-> None]
    /\ rc_sent = [t \in HandleUsers |-> << >>]
    /\ rc_ncalls = [t \in HandleUsers |-> 0]
    /\ RingIdle /\ WsIdle /\ ScrIdle /\ LoopIdle /\ ReaderIdle /\ HookIdle /\ PoolIdle /\ MgrIdle /\ ArrIdle

notRpcVars == <<commonVars, ringVars, wsVars, scrVars, loopVars, readerVars, hookVars, poolVars, mgrVars, arrVars>>

\* let (tx, rx) = bounded(1); let r = Rpc::$kind { tx: Some(tx), .. };
\* $self.tx.send(r).unwrap(); then the caller is in rx.recv()
CCall(t) ==
    /\ rc_pc[t] \in {"idle", "returned"}
    /\ rc_ncalls[t] < MaxCalls
    /\ rc_ncalls' = [rc_ncalls EXCEPT ![t] = @ + 1]
    /\ rc_inbox' = RpcCallSend(rc_inbox, t)
    /\ rc_tx' = [rc_tx EXCEPT ![t] = "queued"]
    /\ rc_buf' = [rc_buf EXCEPT ![t] = << >>]
    /\ rc_sent' = [rc_sent EXCEPT ![t] = << >>]
    /\ rc_got' = [rc_got EXCEPT ![t] = None]
    /\ rc_pc' = [rc_pc EXCEPT ![t] = "recv"]
    /\ UNCHANGED <<notRpcVars, rc_cur>>

\* rx.recv().unwrap(): the call returns the value received, or panics on
\* Err(RecvError)
CRecv(t) ==
    /\ rc_pc[t] = "recv"
    /\ LET r == ReplyRecv(rc_buf[t], rc_tx[t]) IN
        /\ r.kind # "block"
        /\ IF r.kind = "value"
           THEN /\ rc_got' = [rc_got EXCEPT ![t] = Some(r.v)]
                /\ rc_buf' = [rc_buf EXCEPT ![t] = Tail(@)]
                /\ rc_pc' = [rc_pc EXCEPT ![t] = "returned"]
           ELSE /\ rc_pc' = [rc_pc EXCEPT ![t] = "panicked"]
                /\ UNCHANGED <<rc_got, rc_buf>>
    /\ UNCHANGED <<notRpcVars, rc_inbox, rc_cur, rc_tx, rc_sent, rc_ncalls>>

\* The receiver of the inbound channel: match rx.recv().unwrap() { .. }
SRecv ==
    /\ rc_cur = None
    /\ rc_inbox # << >>
    /\ rc_cur' = Some(Head(rc_inbox))
    /\ rc_inbox' = Tail(rc_inbox)
    /\ rc_tx' = [rc_tx EXCEPT ![Head(rc_inbox).from] = "held"]
    /\ UNCHANGED <<notRpcVars, rc_buf, rc_pc, rc_got, rc_sent, rc_ncalls>>

\* tx.send(Ok(())).unwrap() (or an Err value); the request goes out of scope
\* and its Sender is dropped
SReply ==
    \E v \in ReplyValues :
        /\ rc_cur # None
        /\ LET t == rc_cur[1].from IN
            /\ rc_buf' = [rc_buf EXCEPT ![t] = Append(@, v)]
            /\ rc_sent' = [rc_sent EXCEPT ![t] = Append(@, v)]
            /\ rc_tx' = [rc_tx EXCEPT ![t] = "dropped"]
        /\ rc_cur' = None
        /\ UNCHANGED <<notRpcVars, rc_inbox, rc_pc, rc_got, rc_ncalls>>

\* The request is dropped without a send on its tx
SDropTx ==
    /\ rc_cur # None
    /\ rc_tx' = [rc_tx EXCEPT ![rc_cur[1].from] = "dropped"]
    /\ rc_cur' = None
    /\ UNCHANGED <<notRpcVars, rc_inbox, rc_buf, rc_pc, rc_got, rc_sent, rc_ncalls>>

NextRpc ==
    \/ \E t \in HandleUsers : CCall(t)
    \/ \E t \in HandleUsers : CRecv(t)
    \/ SRecv
    \/ SReply
    \/ SDropTx

\* A thread blocked in rx.recv() is woken when a value arrives or the channel
\* is disconnected, and is then scheduled
SpecRpc == InitRpc /\ [][NextRpc]_vars /\ \A t \in HandleUsers : WF_vars(CRecv(t))

\* C19: a caller in rx.recv() has its request in the inbound channel or with
\* the loop, or its reply endpoint is used up; at most one value is sent on a
\* reply endpoint; a call that returned received exactly the value the loop
\* sent; and a caller whose reply endpoint was dropped without a value does
\* not stay blocked: its call fails.
C19_ReplyExactlyOnceOrFail ==
    /\ [](\A t \in HandleUsers :
            /\ Len(rc_sent[t]) <= 1
            /\ rc_pc[t] = "recv" =>
                 \/ rc_tx[t] = "queued" /\ \E k \in 1..Len(rc_inbox) : rc_inbox[k].from = t
                 \/ rc_tx[t] = "held" /\ rc_cur = Some([from |-> t])
                 \/ rc_tx[t] = "dropped"
            /\ rc_pc[t] = "recv" /\ rc_tx[t] # "dropped" => rc_got[t] = None /\ rc_sent[t] = << >>
            /\ rc_pc[t] = "returned" =>
                 /\ Len(rc_sent[t]) = 1
                 /\ rc_got[t] = Some(rc_sent[t][1])
                 /\ rc_buf[t] = << >>
            /\ rc_pc[t] = "panicked" => rc_sent[t] = << >> /\ rc_tx[t] = "dropped")
    /\ \A t \in HandleUsers :
            (rc_pc[t] = "recv" /\ rc_tx[t] = "dropped" /\ rc_sent[t] = << >>) ~> (rc_pc[t] = "panicked")
C19_Witness ==
    \E t, u \in HandleUsers :
        /\ rc_pc[t] = "returned" /\ rc_got[t] = Some("Ok") /\ rc_ncalls[t] = 1
        /\ rc_pc[u] = "panicked" /\ rc_ncalls[u] = 2

-----------------------------------------------------------------------------
(* Claims about Ring::rotate, under SpecRing *)

\* The other direction
Opposite(d) == IF d = Forward THEN Backward ELSE Forward

\* The 0-based index an element at index k of a ring of n elements has after
\* rotate(d)
ShiftedIndex(k, n, d) == IF d = Forward THEN (k + 1) % n ELSE (k + n - 1) % n

\* rotate(rlast.dir) was the last call: the opposite rotate gives back the
\* ring it was called on, its elements are those of that ring shifted
\* circularly by one, and the focused index is the same
RotateShiftsAndKeepsIndex ==
    LET pre == rlast.pre
        n   == RingLen(pre)
    IN  /\ RingRotate(ring, Opposite(rlast.dir)) = Returns(pre, None)
        /\ RingRotate(RingRotate(ring, rlast.dir).ring, Opposite(rlast.dir)) = Returns(ring, None)
        /\ RingLen(ring) = n
        /\ \A k \in 0..(n - 1) : ring.inner[ShiftedIndex(k, n, rlast.dir) + 1] = pre.inner[k + 1]
        /\ ring.focused = pre.focused
        /\ ~panicked

\* C20 as stated: after any rotate, the pair with the opposite rotate is the
\* identity, the elements are shifted circularly by one, the focused index is
\* unchanged, and the focused element is another one than before.
C20_RotateChangesFocusedElement ==
    rlast.op = "rotate" =>
        /\ RotateShiftsAndKeepsIndex
        /\ focused_element(ring) # focused_element(rlast.pre)

\* C20, amended: after any rotate, the pair with the opposite rotate is the
\* identity, the elements are shifted circularly by one and the focused
\* index is unchanged; the focused element is then the element that was the
\* circular neighbour of the focused index (the one before it for Forward,
\* the one after it for Backward), and there is none when the ring is empty.
C20_RotateInverseShiftIndex ==
    rlast.op = "rotate" =>
        /\ RotateShiftsAndKeepsIndex
        /\ LET pre == rlast.pre
               n   == RingLen(pre)
           IN  focused_element(ring) =
                   IF pre.focused < n
                   THEN Some(pre.inner[ShiftedIndex(pre.focused, n, Opposite(rlast.dir)) + 1])
                   ELSE None
C20_Witness ==
    /\ rlast.op = "rotate"
    /\ rlast.dir = Backward
    /\ rlast.pre.inner = <<1, 2, 3>>
    /\ rlast.pre.focused = 1
    /\ ring.inner = <<2, 3, 1>>
    /\ focused_element(ring) = Some(3)

-----------------------------------------------------------------------------
(* Claims about Ring::cycle_focus, drag_focused, remove, insert and focus,  *)
(* under SpecRing                                                           *)

\* The ring has n >= 1 elements and its focused index is one of theirs
ValidFocus(r) == r.inner # << >> /\ r.focused < RingLen(r)

\* C21: cycle_focus(dir) on a ring of n >= 1 elements with a valid focus
\* returns, sets focused to (old + 1) mod n for Forward and (old - 1) mod n
\* for Backward, leaves the element order unchanged and returns the newly
\* focused element.
C21_CycleFocusStepsModN ==
    (rlast.op = "cycle_focus" /\ ValidFocus(rlast.pre)) =>
        LET pre == rlast.pre
            n   == RingLen(pre)
        IN  /\ ~panicked
            /\ ring.inner = pre.inner
            /\ ring.focused = ShiftedIndex(pre.focused, n, rlast.dir)
            /\ rlast.ret = Some(ring.inner[ring.focused + 1])
C21_Witness ==
    /\ rlast.op = "cycle_focus"
    /\ rlast.dir = Forward
    /\ rlast.pre = [inner |-> <<1, 2, 3>>, focused |-> 2]
    /\ ring.focused = 0
    /\ rlast.ret = Some(1)

\* k successive drag_focused(d) from r: the outcome of the last one, or the
\* first panic
RECURSIVE DragTimes(_, _, _)
DragTimes(r, d, k) ==
    IF k = 0 THEN Returns(r, None)
    ELSE LET o == RingDragFocused(r, d) IN
         IF o.panic \/ k = 1 THEN o ELSE DragTimes(o.ring, d, k - 1)

\* C22: drag_focused(dir) on a non-empty ring returns; the focused element
\* is one place further in dir (circularly), the other elements keep their
\* order among themselves, the focus is on the same element and that
\* element is returned; and from every non-empty ring, as many drags in one
\* direction as it has elements give the same order and focused index back.
C22_DragFocusedMovesElement ==
    /\ (rlast.op = "drag_focused" /\ rlast.pre.inner # << >>) =>
          LET pre == rlast.pre
              n   == RingLen(pre)
          IN  /\ ~panicked
              /\ pre.focused < n
              /\ ring.focused = ShiftedIndex(pre.focused, n, rlast.dir)
              /\ RingLen(ring) = n
              /\ ring.inner[ring.focused + 1] = pre.inner[pre.focused + 1]
              /\ rlast.ret = Some(pre.inner[pre.focused + 1])
              /\ DequeRemove(ring.inner, ring.focused) = DequeRemove(pre.inner, pre.focused)
    /\ (~panicked /\ ring.inner # << >>) =>
          \A d \in Direction : DragTimes(ring, d, RingLen(ring)) = Returns(ring, focused_element(ring))

\* The index a remove of the last call was about: the argument of remove, the
\* focused index for remove_focused
RemovedIndex == IF rlast.op = "remove" THEN rlast.i ELSE rlast.pre.focused

\* C23: remove(i) with i < len, and remove_focused(), return; the element at
\* that index is deleted and returned, the remaining elements keep their
\* order, and the focused index is unchanged unless it points past the end
\* of the shorter ring, in which case it is len - 1 (0 for an empty ring).
C23_RemoveClampsFocus ==
    (rlast.op \in {"remove", "remove_focused"} /\ RemovedIndex < RingLen(rlast.pre)) =>
        LET pre == rlast.pre
            len == RingLen(pre) - 1
        IN  /\ ~panicked
            /\ ring.inner = DequeRemove(pre.inner, RemovedIndex)
            /\ rlast.ret = Some(pre.inner[RemovedIndex + 1])
            /\ ring.focused = IF pre.focused < len THEN pre.focused ELSE Max(len, 1) - 1

\* C24: insert(t, Index(i)) with i greater than the length of the ring
\* returns, and t is then the last element, after the elements the ring had.
C24_InsertIndexClamped ==
    (rlast.op = "insert" /\ rlast.ip.kind = "Index" /\ rlast.ip.i > RingLen(rlast.pre)) =>
        /\ ~panicked
        /\ ring.inner = Append(rlast.pre.inner, rlast.t)

\* The 0-based indexes of the elements of q equal to t
MatchingIndexes(q, t) == {k \in 0..(Len(q) - 1) : q[k + 1] = t}

-----------------------------------------------------------------------------
(* Claims about Workspace::cycle_client and drag_client, under              *)
(* SpecWorkspace                                                            *)

\* The focused client of w is at the end of the client list in direction d
\* (for a workspace with clients)
AtEnd(w, d) ==
    \/ d = Forward /\ w.clients.focused = RingLen(w.clients) - 1
    \/ d = Backward /\ w.clients.focused = 0

\* C26: cycle_client(dir) returns and never changes the client order; with
\* fewer than 2 clients, or with a current layout that has allow_wrapping =
\* false when the focus is at the end in dir, it returns None and the focus
\* is unchanged; otherwise the focus is one step further in dir (wrapping)
\* and the result is (previously focused id, newly focused id).
C26_CycleClient ==
    wlast.op = "cycle_client" =>
        LET pre == wlast.pre
            n   == RingLen(pre.clients)
            f   == pre.clients.focused
        IN  /\ ~panicked
            /\ client_ids(ws) = client_ids(pre)
            /\ ws.layouts = pre.layouts
            /\ IF n < 2 \/ (~allow_wrapping(pre) /\ AtEnd(pre, wlast.dir))
               THEN /\ wlast.ret = None
                    /\ ws.clients.focused = f
                    /\ focused_client(ws) = focused_client(pre)
               ELSE /\ ws.clients.focused = ShiftedIndex(f, n, wlast.dir)
                    /\ wlast.ret = <<client_ids(pre)[f + 1], client_ids(ws)[ws.clients.focused + 1]>>
                    /\ focused_client(ws) = Some(wlast.ret[2])
C26_Witness ==
    /\ wlast.op = "cycle_client"
    /\ wlast.dir = Forward
    /\ ~allow_wrapping(wlast.pre)
    /\ RingLen(wlast.pre.clients) = 3
    /\ wlast.pre.clients.focused = 2
    /\ wlast.ret = None
    /\ ws.clients.focused = 2

\* C27: drag_client(dir) returns and leaves the layouts alone; when the
\* current layout has allow_wrapping = false and the focused client is at
\* the end of the list in dir, the client order and the focus are unchanged;
\* in every other case the client list is what Ring::drag_focused(dir)
\* makes of it, and the focused client is the same as before.
C27_DragClient ==
    wlast.op = "drag_client" =>
        LET pre == wlast.pre IN
        /\ ~panicked
        /\ ws.layouts = pre.layouts
        /\ IF ~allow_wrapping(pre) /\ AtEnd(pre, wlast.dir)
           THEN ws.clients = pre.clients
           ELSE LET o == RingDragFocused(pre.clients, wlast.dir) IN
                /\ ~o.panic
                /\ ws.clients = o.ring
                /\ focused_client(ws) = focused_client(pre)

-----------------------------------------------------------------------------
(* SpecArrange: ArrangeActions::new (src/v3/workspace/arrange_actions.rs)   *)
(* for a workspace and a Clients table.  The partition of the clients and   *)
(* the layout function are not part of the sources at hand: the partition   *)
(* follows the rule given for it (a client is floating iff its floating or  *)
(* fullscreen flag is set or its window type is not the normal one), and a  *)
(* layout function returns one (Xid, Option<Region>) per tiled client it    *)
(* is given, in the order it prefers.                                       *)

\* Client, as far as the partition reads it
ClientRecords == [floating : BOOLEAN, fullscreen : BOOLEAN, normal_type : BOOLEAN]

\* Clients tables: HashMap<Xid, Client>, an Option per Xid
ClientTables == [Xids -> {None} \cup {Some(c) : c \in ClientRecords}]

\* The client lists of the workspaces: each Xid at most once
ClientLists == {q \in BoundedSeq(Xids, MaxRingLen) : \A i, j \in 1..Len(q) : i # j => q[i] # q[j]}

\* The partition rule
IsFloating(c) == c.floating \/ c.fullscreen \/ ~c.normal_type

\* Clients::partitioned_clients_for_workspace: the clients of w the table
\* knows, in the order of w, as (floating, tiled)
PartitionedClientsForWorkspace(cs, w) ==
    LET known == SelectSeq(client_ids(w), LAMBDA id : cs[id] # None) IN
    [floating |-> SelectSeq(known, LAMBDA id : IsFloating(cs[id][1])),
     tiled    |-> SelectSeq(known, LAMBDA id : ~IsFloating(cs[id][1]))]

\* The region of the screen
TheRegion == "r"

\* Layout::arrange(&tiled, focused, r): the lists a layout function may
\* return, one entry per tiled client, in any order, each with a region or
\* without
LayoutResults(tiled) ==
    LET n == Len(tiled) IN
    { [k \in 1..n |-> <<tiled[p[k]], reg[k]>>] :
        p \in {f \in [1..n -> 1..n] : \A i, j \in 1..n : i # j => f[i] # f[j]},
        reg \in [1..n -> {None, Some(TheRegion)}] }

\* An ArrangeActions::new that reports every client of the workspace as
\* floating
ArrangeActionsNewAllFloating(w, cs, arranged) ==
    IF client_ids(w) = << >> THEN [actions |-> << >>, floating |-> << >>]
    ELSE [actions |-> arranged, floating |-> client_ids(w)]

\* ArrangeActions::new(ws, r, cs), arranged being what layout.arrange returned
ArrangeActionsNew(w, cs, arranged) ==
    IF client_ids(w) = << >> THEN [actions |-> << >>, floating |-> << >>]
    ELSE [actions |-> arranged, floating |-> PartitionedClientsForWorkspace(cs, w).floating]

InitArrange ==
    /\ overflow_checks \in BOOLEAN
    /\ panicked = FALSE
    /\ \E ids \in ClientLists, f \in 0..(MaxRingLen - 1) :
          /\ f < Max(1, Len(ids))
          /\ ar_ws = WorkspaceWith(ids, f)
    /\ ar_clients \in ClientTables
    /\ ar_out = None
    /\ RingIdle /\ WsIdle /\ ScrIdle /\ LoopIdle /\ ReaderIdle /\ HookIdle /\ PoolIdle /\ MgrIdle /\ RpcIdle

notArrVars == <<commonVars, ringVars, wsVars, scrVars, loopVars, readerVars, hookVars, poolVars, mgrVars, rpcVars>>

\* ArrangeActions::new(&ws, &r, &cs)
AArrange ==
    \E arranged \in LayoutResults(PartitionedClientsForWorkspace(ar_clients, ar_ws).tiled) :
        /\ ar_out' = Some(ArrangeActionsNew(ar_ws, ar_clients, arranged))
        /\ UNCHANGED <<notArrVars, ar_ws, ar_clients>>

NextArrange == AArrange

SpecArrange == InitArrange /\ [][NextArrange]_vars

\* The ids of the clients of ar_ws the table has as tiled, and as floating
TiledIds == {id \in Xids : DequeContains(client_ids(ar_ws), id) /\ ar_clients[id] # None
                              /\ ~IsFloating(ar_clients[id][1])}
FloatingIds == {id \in Xids : DequeContains(client_ids(ar_ws), id) /\ ar_clients[id] # None
                                 /\ IsFloating(ar_clients[id][1])}

-----------------------------------------------------------------------------
(* Claims about detect_screens with fewer regions, under SpecScreens *)

\* C29: when detect_screens is given fewer regions than Screens had, it
\* returns Ok, screens.workspaces has one entry per region left, these are
\* the first entries it had, in their order (the screens kept show what
\* they showed), and no workspace that a dropped screen showed is displayed
\* on any screen.
C29_ShrinkTruncates ==
    (slast.op = "detect_screens" /\ slast.det.ok /\ Len(slast.det.rs) < Len(slast.pre_s.inner)) =>
        LET n   == Len(slast.det.rs)
            old == slast.pre_s.workspaces
        IN  /\ slast.res = "Ok"
            /\ ~panicked
            /\ screens.inner = slast.det.rs
            /\ Len(screens.workspaces) = n
            /\ \A k \in 1..n : screens.workspaces[k] = old[k]
            /\ \A k \in (n + 1)..Min(Len(slast.pre_s.inner), Len(old)) :
                  ~VecContains(screens.workspaces, old[k])

-----------------------------------------------------------------------------
(* Claims about the Ring operations on an empty ring, insert and remove *)

\* The operations that C31 names
EmptyRingOps == {"rotate", "cycle_focus", "drag_focused", "swap_focused_with_front"}

\* C31: rotate, cycle_focus, drag_focused and swap_focused_with_front called
\* on an empty ring (focused = 0) do not fail and leave the ring empty with
\* focused = 0.
C31_EmptyRingNoOps ==
    (rlast.op \in EmptyRingOps /\ rlast.pre = RingNew) =>
        /\ ~panicked
        /\ ring = RingNew

\* The index at which the last insert is to place its element
InsertedAt ==
    CASE rlast.ip.kind = "First" -> 0
      [] rlast.ip.kind = "Last" -> RingLen(rlast.pre)
      [] rlast.ip.kind = "Index" -> rlast.ip.i
      [] rlast.ip.kind = "Focused" -> rlast.pre.focused
      [] rlast.ip.kind = "AfterFocused" ->
            IF rlast.pre.focused + 1 >= RingLen(rlast.pre) THEN RingLen(rlast.pre)
            ELSE rlast.pre.focused + 1

\* C32: insert(t, ip) does not fail and places t at index 0 for First, at
\* the end for Last, at i for Index(i) with i <= len, at the focused index
\* for Focused and just after it for AfterFocused (at the end when the
\* focused element is last); the other elements keep their order and the
\* focused index is not changed.
C32_InsertPlacesElement ==
    (rlast.op = "insert" /\ (rlast.ip.kind = "Index" => rlast.ip.i <= RingLen(rlast.pre))) =>
        /\ ~panicked
        /\ InsertedAt <= RingLen(rlast.pre)
        /\ ring.inner = SubSeq(rlast.pre.inner, 1, InsertedAt) \o <<rlast.t>>
                           \o SubSeq(rlast.pre.inner, InsertedAt + 1, RingLen(rlast.pre))
        /\ ring.focused = rlast.pre.focused

-----------------------------------------------------------------------------
(* Claims about Workspace::cycle_layout and drag_client *)

\* The workspace after k calls of cycle_layout(d)
RECURSIVE CycleLayoutTimes(_, _, _)
CycleLayoutTimes(w, d, k) ==
    IF k = 0 THEN w ELSE CycleLayoutTimes(WsCycleLayout(w, d).ws, d, k - 1)

\* C33: cycle_layout(dir) does not touch the client list, shifts the layouts
\* circularly by one place and returns the symbol of the layout that is then
\* current; on a workspace with n layouts n calls in the same direction give
\* the workspace back, and with two layouts a call switches to the other
\* layout and a second call switches back.
C33_CycleLayout ==
    wlast.op = "cycle_layout" =>
        LET old == wlast.pre
            n == RingLen(old.layouts)
        IN /\ ~panicked
           /\ ws.clients = old.clients
           /\ ws.layouts.focused = old.layouts.focused
           /\ \A k \in 1..n :
                  ws.layouts.inner[ShiftedIndex(k - 1, n, wlast.dir) + 1] = old.layouts.inner[k]
           /\ wlast.ret = <<layout_symbol(ws)>>
           /\ CycleLayoutTimes(old, wlast.dir, n) = old
           /\ n = 2 =>
                  /\ wlast.ret # <<layout_symbol(old)>>
                  /\ WsCycleLayout(ws, wlast.dir).ret = <<layout_symbol(old)>>
C33_Witness ==
    /\ wlast.op = "cycle_layout"
    /\ RingLen(wlast.pre.layouts) = 3
    /\ RingLen(ws.clients) >= 2
    /\ wlast.ret # <<layout_symbol(wlast.pre)>>

-----------------------------------------------------------------------------
(* Claims about the state kept by detect_screens and focus_workspace *)

\* C34: in every state reached through detect_screens and focus_workspace
\* in which a screen exists, workspaces.focused is the workspace shown on the
\* focused screen, screens.workspaces[screens.focused].
C34_FocusedWorkspaceOnFocusedScreen ==
    (~panicked /\ Len(screens.inner) >= 1) =>
        /\ screens.focused < Len(screens.workspaces)
        /\ workspaces.focused = screens.workspaces[screens.focused + 1]

\* C35: after detect_screens has reduced the number of screens, whichever
\* screen was focused before, screens.focused is a valid screen index as
\* long as a screen exists, and screens.workspaces[screens.focused] can be
\* read.
C35_FocusedScreenValidAfterShrink ==
    (DetectCall /\ Len(slast.det.rs) < Len(slast.pre_s.inner)
        /\ slast.pre_s.focused < Len(slast.pre_s.inner)
        /\ Len(screens.inner) >= 1) =>
        /\ screens.focused < Len(screens.inner)
        /\ screens.focused < Len(screens.workspaces)

\* C36: a focus_workspace call in which a call to the display server fails
\* returns the error and leaves screens.workspaces, workspaces.focused and
\* workspaces.prev as they were before the call.
C36_FailedFocusWorkspaceChangesNothing ==
    (slast.op = "focus_workspace" /\ slast.fail > 0) =>
        /\ slast.res = "Err"
        /\ screens.workspaces = slast.pre_s.workspaces
        /\ workspaces.focused = slast.pre_w.focused
        /\ workspaces.prev = slast.pre_w.prev

\* C37: focus_workspace(target) with target not an index of a workspace
\* leaves screens.workspaces, workspaces.focused and workspaces.prev as they
\* were and unmaps no client.
C37_InvalidTargetChangesNothing ==
    (slast.op = "focus_workspace" /\ slast.index >= Len(slast.pre_w.inner)) =>
        /\ screens.workspaces = slast.pre_s.workspaces
        /\ workspaces.focused = slast.pre_w.focused
        /\ workspaces.prev = slast.pre_w.prev
        /\ LogOf({"unmap_if_needed"}) = << >>

\* C38: remove(i) with i >= len returns None and leaves the ring as it was,
\* the focused index included.
C38_RemovePastEndChangesNothing ==
    (rlast.op = "remove" /\ rlast.i >= RingLen(rlast.pre)) =>
        /\ ~panicked
        /\ rlast.ret = None
        /\ ring = rlast.pre

\* C39: drag_client(dir) on a workspace without clients returns without
\* failing and leaves the workspace as it was, whether the current layout
\* allows wrapping or not.
C39_DragClientOnEmptyWorkspace ==
    (wlast.op = "drag_client" /\ client_ids(wlast.pre) = << >>) =>
        /\ ~panicked
        /\ ws = wlast.pre

====
